---- MODULE Spec2Model ----
(***************************************************************************)
(* Model of the distributed-scheduling repository.                         *)
(*                                                                         *)
(* Scheduler  : src/scheduler/roundrobin_scheduler.py (manage_node and the *)
(*              accept loop, one handler thread per accepted connection).  *)
(* Node Worker: src/Node/node.py (SchedulerInterface.register/run_tasks).  *)
(* Logger     : src/scheduler/logger/logger.py (one handler thread per     *)
(*              accepted connection, one message per connection) and       *)
(*              run_logger.py (signal_handler).                            *)
(* Legacy pair: src/scheduler/roundrobin/roundrobin_scheduler.py           *)
(*              (assign_task) and roundrobin_node.py, which send their     *)
(*              lifecycle events to the Logger.                            *)
(*                                                                         *)
(* A protocol message "A|B|C" is modelled by what the code does with it:   *)
(* recv(...).decode().split('|') yields the sequence <<"A","B","C">>.      *)
(***************************************************************************)
EXTENDS Integers, Sequences, FiniteSets, TLC

\* ------------------------------------------------------------------ bounds
\* Longest seeded task list.
MaxTasks == 2
\* Connections the accept loop takes in one run.
MaxConns == 3
\* Connections the Logger accepts in one run.
MaxMsgs == 4
\* Longest task list of the legacy scheduler.
MaxLegacyTasks == 1
\* Longest task list of the legacy scheduler serving one worker, no Logger.
MaxPopTasks == 2

\* Nodes of the simulated cluster (NUM_NODES in the program).
NumNodes == 2
\* Calls made on the simulator in one behaviour.
MaxCalls == 4

\* ------------------------------------------------------- program vocabulary
\* training/env.py: task type constants and the nodes 0 .. NUM_NODES - 1.
TASK_IDLE == -1
TASK_MATMUL == 0
SimNodes == 0..(NumNodes - 1)

matmul_task == "matmul"
primes == "primes"
array == "array"
fileIO == "fileIO"

\* Task names the seeded list is drawn from.
TaskNames == {matmul_task, primes}

\* Handler threads that can be alive at the same time.
Threads == {1, 2}
\* Peer addresses (addr[0]) of the connecting nodes.
Ips == {"10.0.0.1", "10.0.0.2"}
\* Hostnames a node can register under.
Hostnames == {"node1", "node2"}
\* Node Worker processes, each on its own address with its own hostname.
Workers == {1, 2}
WorkerIp(w) == IF w = 1 THEN "10.0.0.1" ELSE "10.0.0.2"
WorkerHost(w) == IF w = 1 THEN "node1" ELSE "node2"
scheduler_hostname == "sched"

Free == 0
\* A connection whose peer is not one of the modelled Node Workers.
NoClient == 0
NoTask == "<none>"
NoReply == <<>>

\* Every sequence over S of length at most n.
SeqsUpTo(S, n) == UNION {[1..k -> S] : k \in 0..n}

\* Messages a peer may put on a connection (already split on '|').
Messages ==
    {<<"REGISTER", "REQUEST", h>> : h \in Hostnames}
    \cup {<<"REGISTER", "REQUEST">>}
    \cup {<<"TASK", "REQUEST">>}
    \cup {<<"TASK", "FINISH", "1.5">>, <<"TASK", "FINISH", "abc">>, <<"TASK", "FINISH">>}
    \cup {<<"garbage">>}

\* float(s) for the strings that parse, in units of half a second
\* (every TIME value of the model is a multiple of 0.5, so sums and
\* differences of these values are exact in binary floating point).
FloatValue ==
    ("0.0" :> 0) @@ ("1.5" :> 3) @@ ("100.0" :> 200) @@ ("102.5" :> 205)

\* float(s): the strings that parse; any other raises ValueError.
IsFloat(s) == s \in DOMAIN FloatValue

get_task_args(task_name) ==
    CASE task_name = "matmul" -> [size |-> 425]
      [] task_name = "primes" -> [max_n |-> 2400000]
      [] task_name = "array"  -> [array_size |-> 5000000]
      [] task_name = "fileIO" -> [num_rw |-> 1000000]
      [] OTHER -> <<>>

\* json.dumps of the argument dict of a task.
json_dumps(task_name) ==
    CASE task_name = "matmul" -> "{\"size\": 425}"
      [] task_name = "primes" -> "{\"max_n\": 2400000}"
      [] task_name = "array"  -> "{\"array_size\": 5000000}"
      [] task_name = "fileIO" -> "{\"num_rw\": 1000000}"
      [] OTHER -> "{}"

AssignResponse(task) == <<"TASK", "ASSIGN", task, json_dumps(task)>>
RestResponse == <<"TASK", "ASSIGN", "REST">>

\* ------------------------------------------------------------------- state
VARIABLES
    tasks,             \* the seeded task list (module-level `tasks`)
    waiting_tasks,     \* tasks.copy(), popped from the front
    processing_tasks,  \* dict: node ip -> task being processed
    finished_tasks,    \* list of finished tasks
    registered_nodes,  \* list of registered hostnames
    node_lock,         \* Free or the thread holding it
    task_lock,         \* Free or the thread holding it
    thread,            \* per handler thread: position, connection, locals
    n_conn,            \* connections accepted so far
    n_req,             \* TASK|REQUEST connections accepted so far
    handed_out,        \* history: tasks sent in non-REST TASK|ASSIGN replies
    outstanding,       \* history: per ip, tasks assigned and not reported finished
    overlapped,        \* history: two TASK|REQUEST handlers were alive together
    wpc,               \* per Node Worker: position in node.py
    wtask,             \* per Node Worker: task type of the assignment in hand
    wrested,           \* per Node Worker: it left run_tasks on a REST reply
    inbox,             \* per Node Worker: what its open socket has received
    wlog               \* history, per Node Worker: what it sent, received and ran

VARIABLES
    events,            \* Logger.events: list of event_data dicts
    log_tasks,         \* Logger.tasks: dict in insertion order, id -> entry
    task_counters,     \* Logger.task_counters: dict task name -> counter
    log_lock,          \* Logger.lock: Free or the handler holding it
    handler,           \* per Logger handler thread: position and locals
    n_msg,             \* connections the Logger has accepted so far
    lock_order,        \* history: event_data of each acquisition of
                       \* Logger.lock by a handler
    snapshot,          \* what get_all_stats() returned to a reader
    returned,          \* history: the value of that dict when it was returned
    running,           \* Logger.running as the accept loop reads it
    accepting,         \* the accept thread is in its loop, at server_socket.accept()
    signal_pc,         \* run_logger.py: position of signal_handler
    log_main,          \* run_logger.py: position of the main thread around logger.start()
    exported           \* what export_to_file wrote (json.dump of the data)

\* The legacy pair: scheduler/roundrobin/roundrobin_scheduler.py and
\* roundrobin_node.py.
VARIABLES
    leg_tasks,         \* legacy scheduler: the module-level `tasks` list
    leg_seed,          \* history: `tasks` as seeded, after shuffle(tasks)
    leg_main,          \* legacy scheduler: position of the accept loop
    leg_thread,        \* legacy scheduler: per assign_task thread, position and locals
    leg_pc,            \* per legacy worker: position in roundrobin_node.py
    leg_task,          \* per legacy worker: `task`, the split reply
    leg_sock,          \* per legacy worker: its connection to the scheduler
    leg_backlog,       \* legacy scheduler: connections queued by listen(), oldest first
    leg_conn,          \* legacy scheduler: worker of the connection the module-level `conn` names
    emitted            \* history: every send_logger_event call, <<message, delivered>>

\* The cluster simulator: training/env.py.
VARIABLES
    node_tasks,          \* NodeCluster.node_tasks: per node [task_type, parameter, start_time, expected_duration]
    current_time,        \* NodeCluster.current_time
    tasks_completed,     \* Env.tasks_completed
    total_time_elapsed,  \* Env.total_time_elapsed
    sim_done,            \* what the last Env.step returned as info['done']
    sim_freed,           \* what the last run_time_forward returned
    sim_assigned,        \* history: tasks other than idle assigned through step since reset
    sim_calls            \* history: names of the calls made on the simulator

schedVars == <<tasks, waiting_tasks, processing_tasks, finished_tasks,
               registered_nodes, node_lock, task_lock, thread, n_conn, n_req>>
histVars == <<handed_out, outstanding, overlapped>>
nodeVars == <<wpc, wtask, wrested, inbox, wlog>>
readVars == <<snapshot, returned>>
shutVars == <<running, accepting, signal_pc, log_main, exported>>
logVars == <<events, log_tasks, task_counters, log_lock, handler, n_msg,
             lock_order, readVars, shutVars>>
simVars == <<node_tasks, current_time, tasks_completed, total_time_elapsed,
             sim_done, sim_freed, sim_assigned, sim_calls>>
legVars == <<leg_tasks, leg_seed, leg_main, leg_thread, leg_pc, leg_task, leg_sock,
             leg_backlog, leg_conn, emitted>>
vars == <<schedVars, histVars, nodeVars, logVars, legVars, simVars>>

IdleThread ==
    [pc |-> "idle", addr |-> "", message |-> <<>>, reply |-> NoReply,
     err |-> FALSE, task |-> NoTask, reqno |-> 0, client |-> NoClient,
     conn |-> 0]

\* Handler threads the Logger runs at once.
Handlers == {1, 2}

\* A dict key that is not set (dict.get(...) is None, `in` is False) is the
\* empty sequence, a key set to v is <<v>>.
None == <<>>
Some(v) == <<v>>

\* No handler thread: nothing received, nothing parsed.  `late` is history:
\* the handler's connection was accepted after a message had been discarded.
IdleHandler ==
    [pc |-> "idle", event_data |-> None, idx |-> 0, tid |-> None, late |-> FALSE]

\* logger = Logger(ip, port): empty log, empty tables, lock free, running
\* False, no socket and no accept thread; start() has not been called, no
\* signal received, nothing exported.
LoggerInit ==
    /\ events = <<>>
    /\ log_tasks = <<>>
    /\ task_counters = [name \in {} |-> 0]
    /\ log_lock = Free
    /\ handler = [h \in Handlers |-> IdleHandler]
    /\ n_msg = 0
    /\ lock_order = <<>>
    /\ snapshot = None
    /\ returned = None
    /\ running = FALSE
    /\ accepting = FALSE
    /\ signal_pc = "serving"
    /\ log_main = "created"
    /\ exported = None

\* No assign_task thread: nothing received, nothing popped.
IdleLegacyThread ==
    [pc |-> "idle", addr |-> "", status |-> "", task |-> NoTask, reply |-> NoReply,
     client |-> NoClient]

\* A legacy worker's socket before connect: no assign_task thread serves it
\* (thread), nothing was sent on it that waits to be received (sent), no
\* reply (data), and the scheduler's end is neither closed, nor reset, nor
\* left open by a thread that died (kept).
NoSocket == [thread |-> Free, data |-> NoReply, closed |-> FALSE, sent |-> FALSE,
             reset |-> FALSE, kept |-> FALSE]

\* np.full((self.num_nodes, 4), TASK_IDLE): an integer array, every cell -1
\* (the two time cells, like every time of the simulator, in half seconds).
FreshNodeTasks ==
    [n \in SimNodes |-> [task_type |-> TASK_IDLE, parameter |-> TASK_IDLE,
                         start_time |-> 2 * TASK_IDLE,
                         expected_duration |-> 2 * TASK_IDLE]]

\* Env.__init__ and NodeCluster.__init__: the simulator as constructed.
SimAbsent ==
    /\ node_tasks = FreshNodeTasks
    /\ current_time = 0
    /\ tasks_completed = 0
    /\ total_time_elapsed = 0
    /\ sim_done = FALSE
    /\ sim_freed = None
    /\ sim_assigned = 0
    /\ sim_calls = <<>>

\* Neither legacy program is running.
LegacyAbsent ==
    /\ leg_tasks = <<>>
    /\ leg_seed = <<>>
    /\ leg_main = "absent"
    /\ leg_thread = [t \in Threads |-> IdleLegacyThread]
    /\ leg_pc = [w \in Workers |-> "absent"]
    /\ leg_task = [w \in Workers |-> <<>>]
    /\ leg_sock = [w \in Workers |-> NoSocket]
    /\ leg_backlog = <<>>
    /\ leg_conn = NoClient
    /\ emitted = <<>>

SchedInit ==
    /\ tasks \in SeqsUpTo(TaskNames, MaxTasks)
    /\ waiting_tasks = tasks
    /\ processing_tasks = [ip \in {} |-> NoTask]
    /\ finished_tasks = <<>>
    /\ registered_nodes = <<>>
    /\ node_lock = Free
    /\ task_lock = Free
    /\ thread = [t \in Threads |-> IdleThread]
    /\ n_conn = 0
    /\ n_req = 0
    /\ handed_out = <<>>
    /\ outstanding = [ip \in Ips |-> 0]
    /\ overlapped = FALSE

\* A socket on which nothing has arrived and which the peer has not closed.
EmptyInbox == [conn |-> 0, data |-> NoReply, closed |-> FALSE]

\* The scheduler alone: no Node Worker process is running.
Init ==
    /\ SchedInit
    /\ LoggerInit
    /\ SimAbsent
    /\ LegacyAbsent
    /\ wpc = [w \in Workers |-> "absent"]
    /\ wtask = [w \in Workers |-> NoTask]
    /\ wrested = [w \in Workers |-> FALSE]
    /\ inbox = [w \in Workers |-> EmptyInbox]
    /\ wlog = [w \in Workers |-> <<>>]

\* ------------------------------------------------------- code-level helpers
\* Faulty variant: the block is entered without waiting for the lock.
LockIgnored(lock) == TRUE

\* threading.Lock: `with lock:` enters only while no thread holds the lock.
LockIsFree(lock) == lock = Free

\* Faulty variant: reads the first element and leaves it in the list.
PopFrontKeep(list) == [task |-> Head(list), rest |-> list]

\* Faulty variant: list.pop(), the last element.
PopBack(list) == [task |-> list[Len(list)], rest |-> SubSeq(list, 1, Len(list) - 1)]

\* list.pop(0): the first element, and the list without it.
PopFront(list) == [task |-> Head(list), rest |-> Tail(list)]

\* Faulty variant: the membership test never finds the element.
InListNever(x, list) == FALSE

\* `x in list`
InList(x, list) == \E i \in 1..Len(list) : list[i] = x

\* dict[key] = value
DictSet(d, key, value) ==
    [k \in DOMAIN d \cup {key} |-> IF k = key THEN value ELSE d[k]]

\* Faulty variant: the entry is read and left in the dict.
DictKeep(d, key) == d

\* dict.pop(key) for a key that is present: the dict without the key.
DictRemove(d, key) == [k \in DOMAIN d \ {key} |-> d[k]]

\* Position reached after recv/split and the message checks (no shared state
\* is touched before a lock is taken).
Dispatch(message) ==
    IF Len(message) < 2 THEN "finally"
    ELSE IF message[1] = "REGISTER"
         THEN IF Len(message) >= 3 THEN "reg_wait" ELSE "finally"
    ELSE IF message[1] = "TASK"
         THEN IF message[2] = "REQUEST" THEN "req_wait"
              ELSE IF message[2] = "FINISH"
                   THEN IF Len(message) >= 3
                        THEN IF IsFloat(message[3]) THEN "fin_wait" ELSE "finally"
                        ELSE "finally"
              ELSE "finally"
    ELSE "finally"

IsRequest(message) ==
    Len(message) >= 2 /\ message[1] = "TASK" /\ message[2] = "REQUEST"

\* Handler t's connection is the socket its Node Worker peer is reading.
Listening(t) ==
    /\ thread[t].client # NoClient
    /\ inbox[thread[t].client].conn = thread[t].conn

\* conn.sendall(reply) as seen by the peer's socket.
Deliver(t, reply) ==
    IF Listening(t) THEN [inbox EXCEPT ![thread[t].client].data = reply] ELSE inbox

\* conn.close() as seen by the peer's socket.
PeerClosed(t) ==
    IF Listening(t) THEN [inbox EXCEPT ![thread[t].client].closed = TRUE] ELSE inbox

\* A handler that has not yet left its locked section.
InService(t) == thread[t].pc \notin {"idle", "finally"}

\* ------------------------------------------------------ scheduler: actions
\* Accept loop: s.accept() and Thread(target=manage_node).start(); the new
\* thread's conn.recv(1024).decode().split('|') and its branch on the fields,
\* which touch no shared state, are part of the step.
AcceptFrom(t, addr, message, client) ==
    /\ thread[t].pc = "idle"
    /\ \A u \in Threads : u < t => thread[u].pc # "idle"
    /\ n_conn' = n_conn + 1
    /\ n_req' = IF IsRequest(message) THEN n_req + 1 ELSE n_req
    /\ thread' = [thread EXCEPT ![t] =
                    [pc |-> Dispatch(message), addr |-> addr, message |-> message,
                     reply |-> NoReply, err |-> FALSE, task |-> NoTask,
                     reqno |-> IF IsRequest(message) THEN n_req + 1 ELSE 0,
                     client |-> client,
                     conn |-> IF client = NoClient THEN 0 ELSE n_conn + 1]]
    /\ overlapped' = (overlapped \/
                        (IsRequest(message) /\
                         \E u \in Threads : InService(u) /\ IsRequest(thread[u].message)))
    /\ UNCHANGED <<tasks, waiting_tasks, processing_tasks, finished_tasks,
                   registered_nodes, node_lock, task_lock, handed_out, outstanding>>
    /\ UNCHANGED <<logVars, legVars, simVars>>

\* A connection from a peer that is not a modelled Node Worker.
Accept(t, addr, message) ==
    /\ n_conn < MaxConns
    /\ AcceptFrom(t, addr, message, NoClient)
    /\ UNCHANGED nodeVars

\* REGISTER: with node_lock:
RegAcquire(t) ==
    /\ thread[t].pc = "reg_wait"
    /\ LockIsFree(node_lock)
    /\ node_lock' = t
    /\ thread' = [thread EXCEPT ![t].pc = "reg_check"]
    /\ UNCHANGED <<tasks, waiting_tasks, processing_tasks, finished_tasks,
                   registered_nodes, task_lock, n_conn, n_req>>
    /\ UNCHANGED <<histVars, nodeVars>>
    /\ UNCHANGED <<logVars, legVars, simVars>>

\* if node_hostname not in registered_nodes: ... else: print, and the end of
\* `with node_lock:`.
RegCheck(t) ==
    /\ thread[t].pc = "reg_check"
    /\ IF InList(thread[t].message[3], registered_nodes)
       THEN /\ thread' = [thread EXCEPT ![t].pc = "finally"]
            /\ node_lock' = IF node_lock = t THEN Free ELSE node_lock
       ELSE /\ thread' = [thread EXCEPT ![t].pc = "reg_append"]
            /\ UNCHANGED node_lock
    /\ UNCHANGED <<tasks, waiting_tasks, processing_tasks, finished_tasks,
                   registered_nodes, task_lock, n_conn, n_req>>
    /\ UNCHANGED <<histVars, nodeVars>>
    /\ UNCHANGED <<logVars, legVars, simVars>>

\* registered_nodes.append(node_hostname), the print, and the end of
\* `with node_lock:`; nothing is sent on the connection.
RegAppend(t) ==
    /\ thread[t].pc = "reg_append"
    /\ registered_nodes' = Append(registered_nodes, thread[t].message[3])
    /\ thread' = [thread EXCEPT ![t].pc = "finally"]
    /\ node_lock' = IF node_lock = t THEN Free ELSE node_lock
    /\ UNCHANGED <<tasks, waiting_tasks, processing_tasks, finished_tasks,
                   task_lock, n_conn, n_req>>
    /\ UNCHANGED <<histVars, nodeVars>>
    /\ UNCHANGED <<logVars, legVars, simVars>>

\* finally: conn.close(); the thread ends.
Close(t) ==
    /\ thread[t].pc = "finally"
    /\ thread' = [thread EXCEPT ![t] = IdleThread]
    /\ UNCHANGED <<tasks, waiting_tasks, processing_tasks, finished_tasks,
                   registered_nodes, node_lock, task_lock, n_conn, n_req>>
    /\ inbox' = PeerClosed(t)
    /\ UNCHANGED <<histVars, wpc, wtask, wrested, wlog>>
    /\ UNCHANGED <<logVars, legVars, simVars>>

\* TASK|REQUEST: with task_lock:
ReqAcquire(t) ==
    /\ thread[t].pc = "req_wait"
    /\ LockIsFree(task_lock)
    /\ task_lock' = t
    /\ thread' = [thread EXCEPT ![t].pc = "req_check"]
    /\ UNCHANGED <<tasks, waiting_tasks, processing_tasks, finished_tasks,
                   registered_nodes, node_lock, n_conn, n_req>>
    /\ UNCHANGED <<histVars, nodeVars>>
    /\ UNCHANGED <<logVars, legVars, simVars>>

\* Faulty variant: only a node found in registered_nodes is given a task.
ReqCheckRegistered(t) ==
    /\ thread[t].pc = "req_check"
    /\ thread' = [thread EXCEPT ![t].pc =
                    IF Len(waiting_tasks) > 0 /\ InList(thread[t].addr, registered_nodes)
                    THEN "req_pop" ELSE "req_rest"]
    /\ UNCHANGED <<tasks, waiting_tasks, processing_tasks, finished_tasks,
                   registered_nodes, node_lock, task_lock, n_conn, n_req>>
    /\ UNCHANGED <<histVars, nodeVars>>
    /\ UNCHANGED <<logVars, legVars, simVars>>

\* if len(waiting_tasks) > 0:
ReqCheck(t) ==
    /\ thread[t].pc = "req_check"
    /\ thread' = [thread EXCEPT ![t].pc =
                    IF Len(waiting_tasks) > 0 THEN "req_pop" ELSE "req_rest"]
    /\ UNCHANGED <<tasks, waiting_tasks, processing_tasks, finished_tasks,
                   registered_nodes, node_lock, task_lock, n_conn, n_req>>
    /\ UNCHANGED <<histVars, nodeVars>>
    /\ UNCHANGED <<logVars, legVars, simVars>>

\* task = waiting_tasks.pop(0); on an empty list pop raises IndexError, which
\* leaves the with block (releasing the lock) and is caught by `except`.
ReqPop(t) ==
    /\ thread[t].pc = "req_pop"
    /\ IF Len(waiting_tasks) > 0
       THEN /\ waiting_tasks' = PopFront(waiting_tasks).rest
            /\ thread' = [thread EXCEPT ![t].task = PopFront(waiting_tasks).task,
                                        ![t].pc = "req_record"]
            /\ UNCHANGED task_lock
       ELSE /\ thread' = [thread EXCEPT ![t].err = TRUE, ![t].pc = "finally"]
            /\ task_lock' = IF task_lock = t THEN Free ELSE task_lock
            /\ UNCHANGED waiting_tasks
    /\ UNCHANGED <<tasks, processing_tasks, finished_tasks,
                   registered_nodes, node_lock, n_conn, n_req>>
    /\ UNCHANGED <<histVars, nodeVars>>
    /\ UNCHANGED <<logVars, legVars, simVars>>

\* processing_tasks[node_ip] = task
ReqRecord(t) ==
    /\ thread[t].pc = "req_record"
    /\ processing_tasks' = DictSet(processing_tasks, thread[t].addr, thread[t].task)
    /\ thread' = [thread EXCEPT ![t].pc = "req_send"]
    /\ UNCHANGED <<tasks, waiting_tasks, finished_tasks,
                   registered_nodes, node_lock, task_lock, n_conn, n_req>>
    /\ UNCHANGED <<histVars, nodeVars>>
    /\ UNCHANGED <<logVars, legVars, simVars>>

\* conn.sendall("TASK|ASSIGN|task|args") and the end of the with block.
ReqSend(t) ==
    /\ thread[t].pc = "req_send"
    /\ thread' = [thread EXCEPT ![t].reply = AssignResponse(thread[t].task),
                                ![t].pc = "finally"]
    /\ task_lock' = IF task_lock = t THEN Free ELSE task_lock
    /\ handed_out' = Append(handed_out, thread[t].task)
    /\ outstanding' = [outstanding EXCEPT ![thread[t].addr] = @ + 1]
    /\ inbox' = Deliver(t, AssignResponse(thread[t].task))
    /\ UNCHANGED <<tasks, waiting_tasks, processing_tasks, finished_tasks,
                   registered_nodes, node_lock, n_conn, n_req, overlapped>>
    /\ UNCHANGED <<wpc, wtask, wrested, wlog>>
    /\ UNCHANGED <<logVars, legVars, simVars>>

\* Faulty variant: the REST branch also drops the requester's in-flight entry.
ReqRestClears(t) ==
    /\ thread[t].pc = "req_rest"
    /\ thread' = [thread EXCEPT ![t].reply = RestResponse, ![t].pc = "finally"]
    /\ task_lock' = IF task_lock = t THEN Free ELSE task_lock
    /\ processing_tasks' = [k \in DOMAIN processing_tasks \ {thread[t].addr} |->
                               processing_tasks[k]]
    /\ UNCHANGED <<tasks, waiting_tasks, finished_tasks,
                   registered_nodes, node_lock, n_conn, n_req>>
    /\ inbox' = Deliver(t, RestResponse)
    /\ UNCHANGED <<histVars, wpc, wtask, wrested, wlog>>
    /\ UNCHANGED <<logVars, legVars, simVars>>

\* else: conn.sendall("TASK|ASSIGN|REST") and the end of the with block.
ReqRest(t) ==
    /\ thread[t].pc = "req_rest"
    /\ thread' = [thread EXCEPT ![t].reply = RestResponse, ![t].pc = "finally"]
    /\ task_lock' = IF task_lock = t THEN Free ELSE task_lock
    /\ UNCHANGED <<tasks, waiting_tasks, processing_tasks, finished_tasks,
                   registered_nodes, node_lock, n_conn, n_req>>
    /\ inbox' = Deliver(t, RestResponse)
    /\ UNCHANGED <<histVars, wpc, wtask, wrested, wlog>>
    /\ UNCHANGED <<logVars, legVars, simVars>>

\* TASK|FINISH|duration: with task_lock:
FinAcquire(t) ==
    /\ thread[t].pc = "fin_wait"
    /\ LockIsFree(task_lock)
    /\ task_lock' = t
    /\ thread' = [thread EXCEPT ![t].pc = "fin_check"]
    /\ UNCHANGED <<tasks, waiting_tasks, processing_tasks, finished_tasks,
                   registered_nodes, node_lock, n_conn, n_req>>
    /\ UNCHANGED <<histVars, nodeVars>>
    /\ UNCHANGED <<logVars, legVars, simVars>>

\* Faulty variant: no membership test; processing_tasks.pop(node_ip, None) is appended.
FinCheckBlind(t) ==
    /\ thread[t].pc = "fin_check"
    /\ IF thread[t].addr \in DOMAIN processing_tasks
       THEN /\ thread' = [thread EXCEPT ![t].pc = "fin_pop"]
            /\ UNCHANGED <<task_lock, finished_tasks>>
       ELSE /\ thread' = [thread EXCEPT ![t].pc = "finally"]
            /\ finished_tasks' = Append(finished_tasks, NoTask)
            /\ task_lock' = IF task_lock = t THEN Free ELSE task_lock
    /\ UNCHANGED <<tasks, waiting_tasks, processing_tasks,
                   registered_nodes, node_lock, n_conn, n_req>>
    /\ UNCHANGED <<histVars, nodeVars>>
    /\ UNCHANGED <<logVars, legVars, simVars>>

\* if node_ip in processing_tasks: ... else: print the warning, leave the block.
FinCheck(t) ==
    /\ thread[t].pc = "fin_check"
    /\ IF thread[t].addr \in DOMAIN processing_tasks
       THEN /\ thread' = [thread EXCEPT ![t].pc = "fin_pop"]
            /\ UNCHANGED task_lock
       ELSE /\ thread' = [thread EXCEPT ![t].pc = "finally"]
            /\ task_lock' = IF task_lock = t THEN Free ELSE task_lock
    /\ UNCHANGED <<tasks, waiting_tasks, processing_tasks, finished_tasks,
                   registered_nodes, node_lock, n_conn, n_req>>
    /\ UNCHANGED <<histVars, nodeVars>>
    /\ UNCHANGED <<logVars, legVars, simVars>>

\* finished_task = processing_tasks.pop(node_ip); a missing key raises KeyError,
\* which leaves the with block and is caught by `except`.
FinPop(t) ==
    /\ thread[t].pc = "fin_pop"
    /\ IF thread[t].addr \in DOMAIN processing_tasks
       THEN /\ processing_tasks' = DictRemove(processing_tasks, thread[t].addr)
            /\ thread' = [thread EXCEPT ![t].task = processing_tasks[thread[t].addr],
                                        ![t].pc = "fin_append"]
            /\ UNCHANGED task_lock
       ELSE /\ thread' = [thread EXCEPT ![t].err = TRUE, ![t].pc = "finally"]
            /\ task_lock' = IF task_lock = t THEN Free ELSE task_lock
            /\ UNCHANGED processing_tasks
    /\ UNCHANGED <<tasks, waiting_tasks, finished_tasks,
                   registered_nodes, node_lock, n_conn, n_req>>
    /\ UNCHANGED <<histVars, nodeVars>>
    /\ UNCHANGED <<logVars, legVars, simVars>>

\* finished_tasks.append(finished_task), the progress prints, end of the block.
FinAppend(t) ==
    /\ thread[t].pc = "fin_append"
    /\ finished_tasks' = Append(finished_tasks, thread[t].task)
    /\ thread' = [thread EXCEPT ![t].pc = "finally"]
    /\ task_lock' = IF task_lock = t THEN Free ELSE task_lock
    /\ outstanding' = [outstanding EXCEPT ![thread[t].addr] =
                          IF @ > 0 THEN @ - 1 ELSE 0]
    /\ UNCHANGED <<tasks, waiting_tasks, processing_tasks,
                   registered_nodes, node_lock, n_conn, n_req, handed_out, overlapped>>
    /\ UNCHANGED nodeVars
    /\ UNCHANGED <<logVars, legVars, simVars>>

\* ---------------------------------------------------------- specification
\* The scheduler serving arbitrary peers; every send succeeds.
Next ==
    \/ \E t \in Threads, addr \in Ips, message \in Messages : Accept(t, addr, message)
    \/ \E t \in Threads : RegAcquire(t)
    \/ \E t \in Threads : RegCheck(t)
    \/ \E t \in Threads : RegAppend(t)
    \/ \E t \in Threads : ReqAcquire(t)
    \/ \E t \in Threads : ReqCheck(t)
    \/ \E t \in Threads : ReqPop(t)
    \/ \E t \in Threads : ReqRecord(t)
    \/ \E t \in Threads : ReqSend(t)
    \/ \E t \in Threads : ReqRest(t)
    \/ \E t \in Threads : FinAcquire(t)
    \/ \E t \in Threads : FinCheck(t)
    \/ \E t \in Threads : FinPop(t)
    \/ \E t \in Threads : FinAppend(t)
    \/ \E t \in Threads : Close(t)

Spec == Init /\ [][Next]_vars


\* Field i of a split message, "" where the message is shorter.
Field(message, i) == IF Len(message) >= i THEN message[i] ELSE ""

\* wlog with one more entry for Node Worker w: what it did and with what.
Logs(w, kind, what) == [wlog EXCEPT ![w] = Append(@, <<kind, what>>)]

\* ------------------------------------------------------------ Node Worker
\* sock.recv(1024).decode().split('|'): the reply's fields, or the single
\* empty field of b'' when the peer closed without sending.
RecvSplit(box) == IF box.data = NoReply THEN <<"">> ELSE box.data

\* The socket has something to return: data, or end of stream.
Readable(box) == box.data # NoReply \/ box.closed

\* Faulty variant: register() returns True whatever came back.
RegisterAlways(confirmation) == TRUE

\* register(): True only for a confirmation with third field 'true' (the
\* print of confirmation[3] raises IndexError on a three-field reply, which
\* the except turns into False); otherwise None or False.
RegisterResult(confirmation) ==
    /\ Len(confirmation) >= 3
    /\ confirmation[3] = "true"
    /\ Len(confirmation) >= 4

\* scheduler = SchedulerInterface(ip, port): __init__ makes a socket, binds it
\* to the scheduler's own address and listens on it. The bind succeeds only
\* on a host that may bind that address while no listener of that host holds
\* it; nothing ever accepts on this socket.
WListen(w) ==
    /\ wpc[w] = "start"
    /\ wpc' = [wpc EXCEPT ![w] = "register"]
    /\ UNCHANGED <<schedVars, histVars, wtask, wrested, inbox, wlog>>
    /\ UNCHANGED <<logVars, legVars, simVars>>

\* SchedulerInterface.__init__: bind raises OSError (the address is in use
\* by a listener of this host, or this host may not bind it); nothing catches
\* it, so the program ends before register() is called.
WListenFails(w) ==
    /\ wpc[w] = "start"
    /\ wpc' = [wpc EXCEPT ![w] = "exited"]
    /\ wlog' = Logs(w, "OSERROR", "")
    /\ UNCHANGED <<schedVars, histVars, wtask, wrested, inbox>>
    /\ UNCHANGED <<logVars, legVars, simVars>>

\* register(): connect and sendall(REGISTER|REQUEST|hostname).
WRegister(w, t) ==
    /\ wpc[w] = "register"
    /\ AcceptFrom(t, WorkerIp(w), <<"REGISTER", "REQUEST", WorkerHost(w)>>, w)
    /\ inbox' = [inbox EXCEPT ![w] = [conn |-> n_conn + 1, data |-> NoReply,
                                      closed |-> FALSE]]
    /\ wpc' = [wpc EXCEPT ![w] = "register_recv"]
    /\ wlog' = Logs(w, "REGISTER", WorkerHost(w))
    /\ UNCHANGED <<wtask, wrested>>

\* confirmation = sock.recv(1024)...; `if scheduler.register(): run_tasks()`,
\* and the end of the program otherwise.
WRegisterRecv(w) ==
    /\ wpc[w] = "register_recv"
    /\ Readable(inbox[w])
    /\ wpc' = [wpc EXCEPT ![w] =
                  IF RegisterResult(RecvSplit(inbox[w])) THEN "run_tasks" ELSE "exited"]
    /\ wlog' = Logs(w, "CONFIRMATION", Field(RecvSplit(inbox[w]), 3))
    /\ inbox' = [inbox EXCEPT ![w] = EmptyInbox]
    /\ UNCHANGED <<schedVars, histVars, wtask, wrested>>
    /\ UNCHANGED <<logVars, legVars, simVars>>

\* The program of node.py starts in every Node Worker.
NodeInit ==
    /\ SchedInit
    /\ LoggerInit
    /\ SimAbsent
    /\ LegacyAbsent
    /\ wpc = [w \in Workers |-> "start"]
    /\ wtask = [w \in Workers |-> NoTask]
    /\ wrested = [w \in Workers |-> FALSE]
    /\ inbox = [w \in Workers |-> EmptyInbox]
    /\ wlog = [w \in Workers |-> <<>>]

\* The Node Workers started from the top of node.py against the scheduler,
\* with no other peer. register() never returns True against manage_node
\* (see RegisterConfirmed), so the steps of run_tasks and the TASK branches
\* of manage_node are not part of this next-state relation: no behaviour of
\* the program from NodeInit takes them.
NodeNext ==
    \/ \E w \in Workers : WListen(w)
    \/ \E w \in Workers : WListenFails(w)
    \/ \E w \in Workers, t \in Threads : WRegister(w, t)
    \/ \E w \in Workers : WRegisterRecv(w)
    \/ \E t \in Threads : RegAcquire(t)
    \/ \E t \in Threads : RegCheck(t)
    \/ \E t \in Threads : RegAppend(t)
    \/ \E t \in Threads : Close(t)

NodeSpec == NodeInit /\ [][NodeNext]_vars

\* run_tasks(): connect and sendall("TASK|REQUEST").
WRequest(w, t) ==
    /\ wpc[w] = "run_tasks"
    /\ AcceptFrom(t, WorkerIp(w), <<"TASK", "REQUEST">>, w)
    /\ inbox' = [inbox EXCEPT ![w] = [conn |-> n_conn + 1, data |-> NoReply,
                                      closed |-> FALSE]]
    /\ wpc' = [wpc EXCEPT ![w] = "request_recv"]
    /\ wlog' = Logs(w, "REQUEST", "")
    /\ UNCHANGED <<wtask, wrested>>

\* Faulty variant: no reply is taken for REST.
IsRestNever(message) == FALSE

\* `message[2] == 'REST'` of run_tasks (the third field).
IsRest(message) == message[3] = "REST"

\* json.loads(s) returns for the argument strings json.dumps produces and
\* raises for any other text of the model.
IsJson(s) == s \in {json_dumps(name) : name \in TaskNames \cup {"sleep"}}

\* message = task_sock.recv(1024)...; the two breaks; json.loads(message[3])
\* raises on a reply of three fields that is not REST and on a fourth field
\* that is not JSON, which ends the program.
WRequestRecv(w) ==
    /\ wpc[w] = "request_recv"
    /\ Readable(inbox[w])
    /\ LET message == RecvSplit(inbox[w]) IN
          IF Len(message) < 3
          THEN /\ wpc' = [wpc EXCEPT ![w] = "exited"]
               /\ UNCHANGED <<wtask, wrested>>
          ELSE IF IsRest(message)
          THEN /\ wpc' = [wpc EXCEPT ![w] = "exited"]
               /\ wrested' = [wrested EXCEPT ![w] = TRUE]
               /\ UNCHANGED wtask
          ELSE IF Len(message) < 4 \/ ~IsJson(message[4])
          THEN /\ wpc' = [wpc EXCEPT ![w] = "exited"]
               /\ UNCHANGED <<wtask, wrested>>
          ELSE /\ wpc' = [wpc EXCEPT ![w] = "execute"]
               /\ wtask' = [wtask EXCEPT ![w] = message[3]]
               /\ UNCHANGED wrested
    /\ wlog' = Logs(w, "REPLY", Field(RecvSplit(inbox[w]), 3))
    /\ inbox' = [inbox EXCEPT ![w] = EmptyInbox]
    /\ UNCHANGED <<schedVars, histVars>>
    /\ UNCHANGED <<logVars, legVars, simVars>>

\* Faulty variant: the loop goes round without send_finish.
AfterExecuteSkips == "run_tasks"

\* What follows task_runner in the loop body: self.send_finish(end - start).
AfterExecute == "send_finish"

\* task_runner(message[2], args) returns (a name outside the four branches
\* runs nothing and returns as well).
WExecute(w) ==
    /\ wpc[w] = "execute"
    /\ wpc' = [wpc EXCEPT ![w] = AfterExecute]
    /\ wlog' = Logs(w, "EXECUTE", wtask[w])
    /\ UNCHANGED <<schedVars, histVars, wtask, wrested, inbox>>
    /\ UNCHANGED <<logVars, legVars, simVars>>

\* send_finish(end - start): connect and sendall("TASK|FINISH|<duration>");
\* nothing is read back, and the loop goes on to the next request.
WSendFinish(w, t) ==
    /\ wpc[w] = "send_finish"
    /\ AcceptFrom(t, WorkerIp(w), <<"TASK", "FINISH", "1.5">>, NoClient)
    /\ wpc' = [wpc EXCEPT ![w] = "run_tasks"]
    /\ wtask' = [wtask EXCEPT ![w] = NoTask]
    /\ wlog' = Logs(w, "FINISH", wtask[w])
    /\ UNCHANGED <<wrested, inbox>>

\* run_tasks() called in every Node Worker, as after a True from register().
RunInit ==
    /\ SchedInit
    /\ LoggerInit
    /\ SimAbsent
    /\ LegacyAbsent
    /\ wpc = [w \in Workers |-> "run_tasks"]
    /\ wtask = [w \in Workers |-> NoTask]
    /\ wrested = [w \in Workers |-> FALSE]
    /\ inbox = [w \in Workers |-> EmptyInbox]
    /\ wlog = [w \in Workers |-> <<>>]

RunNext ==
    \/ \E w \in Workers, t \in Threads : WRequest(w, t)
    \/ \E w \in Workers : WRequestRecv(w)
    \/ \E w \in Workers : WExecute(w)
    \/ \E w \in Workers, t \in Threads : WSendFinish(w, t)
    \/ \E t \in Threads : ReqAcquire(t)
    \/ \E t \in Threads : ReqCheck(t)
    \/ \E t \in Threads : ReqPop(t)
    \/ \E t \in Threads : ReqRecord(t)
    \/ \E t \in Threads : ReqSend(t)
    \/ \E t \in Threads : ReqRest(t)
    \/ \E t \in Threads : FinAcquire(t)
    \/ \E t \in Threads : FinCheck(t)
    \/ \E t \in Threads : FinPop(t)
    \/ \E t \in Threads : FinAppend(t)
    \/ \E t \in Threads : Close(t)

RunSpec == RunInit /\ [][RunNext]_vars

\* ------------------------------------------- Node Worker and any peer
\* What a peer at the scheduler's address may answer (already split on
\* '|'); NoReply is a connection closed with nothing sent.
Replies ==
    {NoReply,
     <<"REGISTER", "CONFIRM", "true", scheduler_hostname>>,
     <<"REGISTER", "CONFIRM", "false", scheduler_hostname>>,
     <<"REGISTER", "CONFIRM", "true">>,
     <<"REGISTER", "CONFIRM">>,
     AssignResponse(matmul_task),
     AssignResponse("sleep"),
     <<"TASK", "ASSIGN", matmul_task>>,
     RestResponse}

\* The peer answers the connection of handler t with reply and closes it
\* later (Close); it hands out at most MaxTasks assignments.
PeerReply(t, reply) ==
    /\ InService(t)
    /\ thread[t].client # NoClient
    /\ (Len(reply) >= 4 /\ reply[1] = "TASK") => n_req <= MaxTasks
    /\ inbox' = Deliver(t, reply)
    /\ thread' = [thread EXCEPT ![t].pc = "finally", ![t].reply = reply]
    /\ UNCHANGED <<tasks, waiting_tasks, processing_tasks, finished_tasks,
                   registered_nodes, node_lock, task_lock, n_conn, n_req>>
    /\ UNCHANGED <<histVars, wpc, wtask, wrested, wlog>>
    /\ UNCHANGED <<logVars, legVars, simVars>>

\* The peer reads a connection nobody waits on (send_finish reads nothing
\* back) and is done with it.
PeerRead(t) ==
    /\ InService(t)
    /\ thread[t].client = NoClient
    /\ thread' = [thread EXCEPT ![t].pc = "finally"]
    /\ UNCHANGED <<tasks, waiting_tasks, processing_tasks, finished_tasks,
                   registered_nodes, node_lock, task_lock, n_conn, n_req>>
    /\ UNCHANGED <<histVars, nodeVars>>
    /\ UNCHANGED <<logVars, legVars, simVars>>

\* register(): sock.connect raises (nothing listens); the except prints and
\* returns False, and the program ends.
WRegisterRefused(w) ==
    /\ wpc[w] = "register"
    /\ wpc' = [wpc EXCEPT ![w] = "exited"]
    /\ wlog' = Logs(w, "REFUSED", "")
    /\ UNCHANGED <<schedVars, histVars, wtask, wrested, inbox>>
    /\ UNCHANGED <<logVars, legVars, simVars>>

\* register(): nothing else listens at the scheduler's address and the host
\* owns it, so sock.connect reaches the listening socket of __init__; the
\* sendall succeeds into the queued connection and sock.recv blocks for
\* ever, since no code accepts on that socket or writes to the connection.
WRegisterSelf(w) ==
    /\ wpc[w] = "register"
    /\ wpc' = [wpc EXCEPT ![w] = "self_recv"]
    /\ wlog' = Logs(w, "REGISTER", WorkerHost(w))
    /\ UNCHANGED <<schedVars, histVars, wtask, wrested, inbox>>
    /\ UNCHANGED <<logVars, legVars, simVars>>

\* node.py starts on one Node Worker; the peer holds no task list of its own.
PeerInit ==
    /\ tasks = <<>>
    /\ SchedInit
    /\ LoggerInit
    /\ SimAbsent
    /\ LegacyAbsent
    /\ wpc = [w \in Workers |-> IF w = 1 THEN "start" ELSE "absent"]
    /\ wtask = [w \in Workers |-> NoTask]
    /\ wrested = [w \in Workers |-> FALSE]
    /\ inbox = [w \in Workers |-> EmptyInbox]
    /\ wlog = [w \in Workers |-> <<>>]

\* node.py from its first line, against whatever answers at the scheduler's
\* address.
PeerNext ==
    \/ \E w \in Workers : WListen(w)
    \/ \E w \in Workers : WListenFails(w)
    \/ \E w \in Workers, t \in Threads : WRegister(w, t)
    \/ \E w \in Workers : WRegisterRefused(w)
    \/ \E w \in Workers : WRegisterSelf(w)
    \/ \E w \in Workers : WRegisterRecv(w)
    \/ \E w \in Workers, t \in Threads : WRequest(w, t)
    \/ \E w \in Workers : WRequestRecv(w)
    \/ \E w \in Workers : WExecute(w)
    \/ \E w \in Workers, t \in Threads : WSendFinish(w, t)
    \/ \E t \in Threads, reply \in Replies : PeerReply(t, reply)
    \/ \E t \in Threads : PeerRead(t)
    \/ \E t \in Threads : Close(t)

PeerSpec == PeerInit /\ [][PeerNext]_vars

\* task_runner(message[2], args): the task body raises; the exception leaves
\* run_tasks and the program ends.
WRaise(w) ==
    /\ wpc[w] = "execute"
    /\ wtask[w] \in TaskNames
    /\ wpc' = [wpc EXCEPT ![w] = "exited"]
    /\ wlog' = Logs(w, "RAISE", wtask[w])
    /\ UNCHANGED <<schedVars, histVars, wtask, wrested, inbox>>
    /\ UNCHANGED <<logVars, legVars, simVars>>

\* The run of RunSpec where a task body may raise.
RaiseNext == RunNext \/ \E w \in Workers : WRaise(w)

RaiseSpec == RunInit /\ [][RaiseNext]_vars

\* ------------------------------------------ Node Worker: network errors
\* Faulty variant: the loop goes round again after the error.
AfterNetErrorRetries == "run_tasks"

\* run_tasks and send_finish have no try: an OSError from connect, sendall
\* or recv leaves the while loop and ends the program.
AfterNetError == "exited"

\* task_sock.connect or task_sock.sendall("TASK|REQUEST") raises.
WRequestFails(w) ==
    /\ wpc[w] = "run_tasks"
    /\ wpc' = [wpc EXCEPT ![w] = AfterNetError]
    /\ wlog' = Logs(w, "NETERR", "REQUEST")
    /\ UNCHANGED <<schedVars, histVars, wtask, wrested, inbox>>
    /\ UNCHANGED <<logVars, legVars, simVars>>

\* task_sock.recv(1024) raises (the connection is reset); the socket is
\* closed by the with block.
WRecvFails(w) ==
    /\ wpc[w] = "request_recv"
    /\ wpc' = [wpc EXCEPT ![w] = AfterNetError]
    /\ wlog' = Logs(w, "NETERR", "RECV")
    /\ inbox' = [inbox EXCEPT ![w] = EmptyInbox]
    /\ UNCHANGED <<schedVars, histVars, wtask, wrested>>
    /\ UNCHANGED <<logVars, legVars, simVars>>

\* send_finish: task_sock.connect or task_sock.sendall raises.
WFinishFails(w) ==
    /\ wpc[w] = "send_finish"
    /\ wpc' = [wpc EXCEPT ![w] = AfterNetError]
    /\ wlog' = Logs(w, "NETERR", "FINISH")
    /\ UNCHANGED <<schedVars, histVars, wtask, wrested, inbox>>
    /\ UNCHANGED <<logVars, legVars, simVars>>

\* The run of RunSpec on a network that may fail.
NetNext ==
    \/ RunNext
    \/ \E w \in Workers : WRequestFails(w)
    \/ \E w \in Workers : WRecvFails(w)
    \/ \E w \in Workers : WFinishFails(w)

NetSpec == RunInit /\ [][NetNext]_vars

\* ------------------------------------------- scheduler: failing sends
\* Faulty variant: the exception leaves the with block with the lock held.
ExitsHolding(lock, t) == lock

\* `with lock:` left by an exception: __exit__ releases the lock.
Exits(lock, t) == IF lock = t THEN Free ELSE lock

\* conn.sendall(response) of the assign branch raises (the peer is gone):
\* the task is popped and recorded, the exception leaves `with task_lock`
\* and is printed by `except Exception`.
ReqSendFails(t) ==
    /\ thread[t].pc = "req_send"
    /\ thread' = [thread EXCEPT ![t].err = TRUE, ![t].pc = "finally"]
    /\ task_lock' = Exits(task_lock, t)
    /\ UNCHANGED <<tasks, waiting_tasks, processing_tasks, finished_tasks,
                   registered_nodes, node_lock, n_conn, n_req>>
    /\ UNCHANGED <<histVars, nodeVars>>
    /\ UNCHANGED <<logVars, legVars, simVars>>

\* conn.sendall("TASK|ASSIGN|REST") raises.
ReqRestFails(t) ==
    /\ thread[t].pc = "req_rest"
    /\ thread' = [thread EXCEPT ![t].err = TRUE, ![t].pc = "finally"]
    /\ task_lock' = Exits(task_lock, t)
    /\ UNCHANGED <<tasks, waiting_tasks, processing_tasks, finished_tasks,
                   registered_nodes, node_lock, n_conn, n_req>>
    /\ UNCHANGED <<histVars, nodeVars>>
    /\ UNCHANGED <<logVars, legVars, simVars>>

\* The scheduler serving arbitrary peers, some of which are gone when the
\* reply is sent.
FailNext ==
    \/ Next
    \/ \E t \in Threads : ReqSendFails(t)
    \/ \E t \in Threads : ReqRestFails(t)

FailSpec == Init /\ [][FailNext]_vars

\* ------------------------------------------------------------ vocabulary
N == Len(tasks)

Count(list, x) == Cardinality({i \in DOMAIN list : list[i] = x})

\* Shared scheduler data (everything but the locks and the handlers).
data == <<waiting_tasks, processing_tasks, finished_tasks, registered_nodes>>

\* Handlers that popped a task and have not yet sent it.
PoppedUnsent == {t \in Threads : thread[t].pc \in {"req_record", "req_send"}}

\* Positions inside `with task_lock:`.
TaskSection ==
    {"req_check", "req_pop", "req_record", "req_send", "req_rest",
     "fin_check", "fin_pop", "fin_append"}

\* A handler that is done with a TASK|REQUEST and about to close.
RequestDone(t) == thread[t].pc = "finally" /\ IsRequest(thread[t].message)

IsAssign(reply) == Len(reply) = 4 /\ reply[1] = "TASK" /\ reply[2] = "ASSIGN"

\* ------------------------------------------------------------------ C1
\* C1 (queue exhaustion): at most N non-REST TASK|ASSIGN replies are issued,
\* every popped task is answered by exactly one such reply (so exactly N once
\* the queue is drained), every handled TASK|REQUEST gets a reply, REST is
\* sent only after the N-th assignment, and after the N-th assignment no
\* handler is on the assigning branch (a request handled then gets REST).
QueueExhaustion ==
    /\ Len(handed_out) <= N
    /\ Len(handed_out) + Len(waiting_tasks) + Cardinality(PoppedUnsent) = N
    /\ \A t \in Threads :
          RequestDone(t) =>
             /\ ~thread[t].err
             /\ \/ thread[t].reply = RestResponse /\ Len(handed_out) = N
                \/ IsAssign(thread[t].reply) /\ thread[t].reply[3] # "REST"
    /\ Len(handed_out) = N =>
          \A t \in Threads : thread[t].pc \notin {"req_pop", "req_record", "req_send"}

\* N >= 1 tasks were all assigned and one more request was answered REST.
QueueExhaustionWitness ==
    /\ N >= 1
    /\ Len(handed_out) = N
    /\ \E t \in Threads : RequestDone(t) /\ thread[t].reply = RestResponse

\* ------------------------------------------------------------------ C2
\* C2 (no double assignment): a handler inside `with task_lock:` holds the
\* lock, so the pop and the in-flight update of one handler are never
\* interleaved with another handler's locked section; no task name is handed
\* out more often than it was seeded, and once the queue is empty and every
\* popped task is sent, the handed-out multiset equals the seeded multiset.
NoDoubleAssignment ==
    /\ \A t \in Threads : thread[t].pc \in TaskSection => task_lock = t
    /\ \A x \in TaskNames : Count(handed_out, x) <= Count(tasks, x)
    /\ (waiting_tasks = <<>> /\ PoppedUnsent = {}) =>
          \A x \in TaskNames : Count(handed_out, x) = Count(tasks, x)

\* Two TASK|REQUEST handlers were alive together and both got a task.
NoDoubleAssignmentWitness ==
    /\ overlapped
    /\ N = 2
    /\ waiting_tasks = <<>>
    /\ \A t \in Threads : RequestDone(t) /\ IsAssign(thread[t].reply)

\* ------------------------------------------------------------------ C3
\* C3 (at most one in-flight assignment per node id): for each node id, at
\* most one task has been assigned to it and not yet reported finished.
OneOutstandingPerNode == \A ip \in Ips : outstanding[ip] <= 1

\* ------------------------------------------------------------------ C4
ConfirmResponse == <<"REGISTER", "CONFIRM", "true", scheduler_hostname>>

IsRegister(message) == Len(message) >= 3 /\ message[1] = "REGISTER"

\* C4 (registration is confirmed): a handler that served
\* REGISTER|REQUEST|<hostname> has sent REGISTER|CONFIRM|true|<scheduler
\* hostname> by the time it closes the connection.
RegisterConfirmed ==
    \A t \in Threads :
        (thread[t].pc = "finally" /\ IsRegister(thread[t].message)) =>
            thread[t].reply = ConfirmResponse

\* ------------------------------------------------------------------ C5
\* C5 (idempotent registration): no hostname is in the registry twice, and a
\* handler that served REGISTER for a hostname ended without error with that
\* hostname in the registry exactly once.
IdempotentRegistration ==
    /\ \A h \in Hostnames : Count(registered_nodes, h) <= 1
    /\ \A t \in Threads :
          (thread[t].pc = "finally" /\ IsRegister(thread[t].message)) =>
             /\ ~thread[t].err
             /\ Count(registered_nodes, thread[t].message[3]) = 1

\* Two concurrent REGISTER connections for one hostname were both served.
IdempotentRegistrationWitness ==
    \E h \in Hostnames :
        /\ \A t \in Threads :
              thread[t].pc = "finally" /\ thread[t].message = <<"REGISTER", "REQUEST", h>>
        /\ registered_nodes = <<h>>

\* ------------------------------------------------------------------ C6
\* The reply the k-th TASK|REQUEST is due when requests are served in order.
ExpectedReply(k) == IF k <= N THEN AssignResponse(tasks[k]) ELSE RestResponse

\* C6 (assignment order): tasks leave the queue in seeded order, and while
\* TASK|REQUEST connections are handled one after another the k-th request is
\* answered with the k-th seeded task, or with REST when k > N.
AssignmentOrder ==
    /\ Len(handed_out) <= N
    /\ handed_out = SubSeq(tasks, 1, Len(handed_out))
    /\ ~overlapped =>
          \A t \in Threads : RequestDone(t) => thread[t].reply = ExpectedReply(thread[t].reqno)

\* Seeded [matmul, primes]: the third sequential request is answered REST
\* after matmul and primes were handed out in that order.
AssignmentOrderWitness ==
    /\ ~overlapped
    /\ tasks = <<matmul_task, primes>>
    /\ handed_out = <<matmul_task, primes>>
    /\ \E t \in Threads :
          RequestDone(t) /\ thread[t].reqno = 3 /\ thread[t].reply = RestResponse

\* ------------------------------------------------------------------ C7
IsFinish(message) ==
    Len(message) >= 3 /\ message[1] = "TASK" /\ message[2] = "FINISH"

\* Handler t takes a step.
Steps(t) == thread'[t] # thread[t]

\* C7 (orphan TASK|FINISH): a TASK|FINISH handler changes no shared data on
\* entering the locked section, and when it finds no in-flight entry for
\* its node id it leaves the waiting queue, the in-flight map, FinishedTasks
\* and the registry unchanged, releases task_lock and ends without error.
OrphanFinishIgnored ==
    [][\A t \in Threads :
          /\ (Steps(t) /\ thread[t].pc = "fin_wait") => UNCHANGED data
          /\ (Steps(t) /\ thread[t].pc = "fin_check"
                /\ thread[t].addr \notin DOMAIN processing_tasks)
                => /\ UNCHANGED data
                   /\ UNCHANGED <<handed_out, outstanding>>
                   /\ thread'[t].pc = "finally"
                   /\ ~thread'[t].err
                   /\ task_lock' = Free]_vars

\* A TASK|FINISH from a node id without an in-flight entry was served while a
\* task was still waiting and another node's entry was in flight.
OrphanFinishIgnoredWitness ==
    \E t \in Threads :
        /\ thread[t].pc = "finally"
        /\ IsFinish(thread[t].message) /\ IsFloat(thread[t].message[3])
        /\ thread[t].task = NoTask
        /\ waiting_tasks # <<>>
        /\ DOMAIN processing_tasks # {}
        /\ task_lock = Free

\* ------------------------------------------------------------------ C8
\* C8 (TASK|FINISH with an in-flight entry): the handler removes exactly its
\* node's entry and appends that entry's task to FinishedTasks;
\* len(FinishedTasks) never exceeds N, and when it equals N the waiting queue
\* and the in-flight map are empty.
FinishCompletes ==
    /\ [](/\ Len(finished_tasks) <= N
          /\ Len(finished_tasks) = N =>
                (waiting_tasks = <<>> /\ DOMAIN processing_tasks = {}))
    /\ [][\A t \in Threads :
            /\ (Steps(t) /\ thread[t].pc = "fin_check"
                  /\ thread[t].addr \in DOMAIN processing_tasks)
                  => (thread'[t].pc = "fin_pop" /\ UNCHANGED data)
            /\ (Steps(t) /\ thread[t].pc = "fin_pop")
                  => /\ thread[t].addr \in DOMAIN processing_tasks
                     /\ thread'[t].task = processing_tasks[thread[t].addr]
                     /\ DOMAIN processing_tasks' = DOMAIN processing_tasks \ {thread[t].addr}
                     /\ \A ip \in DOMAIN processing_tasks' :
                           processing_tasks'[ip] = processing_tasks[ip]
                     /\ UNCHANGED <<waiting_tasks, finished_tasks, registered_nodes>>
            /\ (Steps(t) /\ thread[t].pc = "fin_append")
                  => /\ finished_tasks' = Append(finished_tasks, thread[t].task)
                     /\ thread[t].addr \notin DOMAIN processing_tasks'
                     /\ UNCHANGED <<waiting_tasks, processing_tasks, registered_nodes>>]_vars

\* A TASK|FINISH found its entry and completed a run of N >= 1 tasks.
FinishCompletesWitness ==
    /\ N >= 1
    /\ Len(finished_tasks) = N
    /\ \E t \in Threads :
          /\ thread[t].pc = "finally"
          /\ IsFinish(thread[t].message)
          /\ thread[t].task = finished_tasks[N]

\* ------------------------------------------------------------------ C9
\* C9 (TASK|REQUEST on an empty queue): the handler that finds the waiting
\* queue empty replies TASK|ASSIGN|REST and changes neither the waiting queue,
\* the in-flight map (its own entry included), FinishedTasks nor the registry.
RestChangesNothing ==
    [][\A t \in Threads :
          /\ (Steps(t) /\ thread[t].pc = "req_check" /\ Len(waiting_tasks) = 0)
                => (thread'[t].pc = "req_rest" /\ UNCHANGED data)
          /\ (Steps(t) /\ thread[t].pc = "req_rest")
                => /\ thread'[t].reply = RestResponse
                   /\ thread'[t].pc = "finally"
                   /\ ~thread'[t].err
                   /\ UNCHANGED data
                   /\ UNCHANGED <<handed_out, outstanding>>]_vars

\* A node with an in-flight entry asked again on an empty queue: it was sent
\* REST and its entry is still there.
RestChangesNothingWitness ==
    \E t \in Threads :
        /\ RequestDone(t)
        /\ thread[t].reply = RestResponse
        /\ thread[t].addr \in DOMAIN processing_tasks
        /\ N >= 1

\* ------------------------------------------------------------------ C10
RunComplete == \A x \in TaskNames : Count(finished_tasks, x) = Count(tasks, x)

AllExited == \A w \in Workers : wpc[w] = "exited"

\* No handler thread is alive in the scheduler.
NoHandler == \A t \in Threads : thread[t].pc = "idle"

\* Every Node Worker got past the bind and listen of its constructor.
AllListening ==
    \A w \in Workers : \A i \in DOMAIN wlog[w] : wlog[w][i][1] # "OSERROR"

\* C10 (composed-system liveness), as the final result it requires: once
\* every Node Worker has exited and every handler thread has ended, nothing
\* more happens, so by then every seeded task is in FinishedTasks and every
\* Node Worker has left its loop on a REST reply. The claim's premise of no
\* failure is taken to cover the start of the program: only runs in which
\* every Node Worker could listen are held to it.
NodesFinishTheRun ==
    (AllExited /\ NoHandler /\ AllListening)
        => (RunComplete /\ \A w \in Workers : wrested[w])

\* A list is a suffix of another: what is left of a queue that was only
\* popped from the front.
IsSuffix(s, list) ==
    \E k \in 0..Len(list) : s = SubSeq(list, k + 1, Len(list))

\* A TASK|FINISH handler of node ip takes the step that pops ip's entry.
FinishPops(ip) ==
    \E t \in Threads : /\ Steps(t)
                       /\ thread[t].pc = "fin_pop"
                       /\ thread[t].addr = ip

\* C11: no re-queue.  The waiting queue only shrinks, and as long as the
\* assigned node sends no TASK|FINISH its task stays in the in-flight map:
\* an entry of processing_tasks is removed or replaced only by the step of
\* that node's TASK|FINISH handler that pops it.
NoRequeue ==
    [][/\ IsSuffix(waiting_tasks', waiting_tasks)
       /\ \A ip \in DOMAIN processing_tasks :
              ~FinishPops(ip)
                  => /\ ip \in DOMAIN processing_tasks'
                     /\ processing_tasks'[ip] = processing_tasks[ip]]_vars

\* ================================================================== Logger
\* src/scheduler/logger/logger.py.  A message is modelled by message.split():
\* the sequence of its whitespace-separated tokens.

\* time.time() readings the Logger may take (102.0 s, in half seconds).
Clock == {204}

\* NODE n EVENT e TIME t TASK k, as the senders format it.
event_msg(node, event, time, task) ==
    <<"NODE", node, "EVENT", event, "TIME", time, "TASK", task>>

\* Messages a sender may put on a Logger connection.
LogMessages ==
    {event_msg("node1", "TASK_ASSIGNED", t, matmul_task) : t \in {"100.0", "102.5"}}
    \cup {event_msg("node1", "TASK_FINISHED", t, matmul_task) : t \in {"100.0", "102.5"}}
    \cup {event_msg("node2", "TASK_ASSIGNED", "100.0", matmul_task)}
    \cup {event_msg("node1", "TASK_ASSIGNED", "100.0", "matmul_1")}
    \cup {<<"NODE", "node1", "EVENT", "TASK_REQUESTED", "TIME", "100.0">>}
    \cup {<<"NODE", "node1", "EVENT", "TASK_ASSIGNED">>}
    \cup {<<"EVENT", "TASK_ASSIGNED", "TIME", "100.0", "TASK", matmul_task>>}
    \cup {<<"NODE", "node1", "TIME", "100.0", "TASK", matmul_task>>}
    \cup {event_msg("node1", "TASK_ASSIGNED", "abc", matmul_task)}
    \cup {<<"NODE", "node1", "EVENT">>}
    \cup {<<>>}

\* event_data = {} and the outcome of the parse loop: the dict built so far,
\* or a ValueError raised by float().
EmptyEventData ==
    [node |-> None, event |-> None, time |-> None, task_name |-> None]

RECURSIVE ParseFrom(_, _, _)
\* The while loop of _parse_and_log_event from index i (1-based) on.
ParseFrom(parts, i, event_data) ==
    IF i > Len(parts)
    THEN [raised |-> FALSE, event_data |-> event_data]
    ELSE IF parts[i] = "NODE" /\ i + 1 <= Len(parts)
    THEN ParseFrom(parts, i + 2, [event_data EXCEPT !.node = Some(parts[i + 1])])
    ELSE IF parts[i] = "EVENT" /\ i + 1 <= Len(parts)
    THEN ParseFrom(parts, i + 2, [event_data EXCEPT !.event = Some(parts[i + 1])])
    ELSE IF parts[i] = "TIME" /\ i + 1 <= Len(parts)
    THEN IF IsFloat(parts[i + 1])
         THEN ParseFrom(parts, i + 2,
                        [event_data EXCEPT !.time = Some(FloatValue[parts[i + 1]])])
         ELSE [raised |-> TRUE, event_data |-> event_data]
    ELSE IF parts[i] = "TASK" /\ i + 1 <= Len(parts)
    THEN ParseFrom(parts, i + 2, [event_data EXCEPT !.task_name = Some(parts[i + 1])])
    ELSE ParseFrom(parts, i + 1, event_data)

\* Faulty variant: the required fields are not validated.
ValidAlways(parsed) == ~parsed.raised

\* The message gets past the parse loop and the required-field check.
Valid(parsed) ==
    /\ ~parsed.raised
    /\ parsed.event_data.node # None
    /\ parsed.event_data.event # None

\* The event_data dict that is logged: time defaults to time.time();
\* task_instance is set later by _process_event.
Logged(event_data, now) ==
    [node |-> IF event_data.node = None THEN "" ELSE event_data.node[1],
     event |-> IF event_data.event = None THEN "" ELSE event_data.event[1],
     time |-> IF event_data.time = None THEN now ELSE event_data.time[1],
     task_name |-> event_data.task_name,
     task_instance |-> None]

\* Leaving the with block and _handle_client's try; finally:
\* client_socket.close() and the handler thread ends.
Released(h) == [handler EXCEPT ![h] = IdleHandler]

\* Connections whose message was discarded before `with self.lock`.
Discards ==
    n_msg - Len(lock_order)
          - Cardinality({h \in Handlers : handler[h].pc = "lock_wait"})

\* logger.start(), line 21: self.running = True.  The main thread is not
\* inside signal_handler.
Start ==
    /\ log_main = "created"
    /\ signal_pc = "serving"
    /\ running' = TRUE
    /\ log_main' = "starting"
    /\ UNCHANGED <<events, log_tasks, task_counters, log_lock, handler, n_msg, lock_order>>
    /\ UNCHANGED <<accepting, signal_pc, exported, readVars>>
    /\ UNCHANGED <<schedVars, histVars, nodeVars, legVars, simVars>>

\* logger.start(), lines 22-32: the socket is made, bound and listening,
\* and the accept thread (a daemon thread) is started; the main thread
\* goes on to its sleep loop.
StartListen ==
    /\ log_main = "starting"
    /\ signal_pc = "serving"
    /\ accepting' = TRUE
    /\ log_main' = "serving"
    /\ UNCHANGED <<events, log_tasks, task_counters, log_lock, handler, n_msg, lock_order>>
    /\ UNCHANGED <<running, signal_pc, exported, readVars>>
    /\ UNCHANGED <<schedVars, histVars, nodeVars, legVars, simVars>>

\* logger.start(), line 24: bind raises OSError (the port is in use);
\* running stays True, no accept thread is started, and run_logger.py ends
\* with the traceback.
StartFails ==
    /\ log_main = "starting"
    /\ signal_pc = "serving"
    /\ log_main' = "failed"
    /\ UNCHANGED <<events, log_tasks, task_counters, log_lock, handler, n_msg, lock_order>>
    /\ UNCHANGED <<running, accepting, signal_pc, exported, readVars>>
    /\ UNCHANGED <<schedVars, histVars, nodeVars, legVars, simVars>>

\* server_socket.accept() returns a connection; handler =
\* Thread(target=_handle_client); recv, strip, `if data:`, and the part of
\* _parse_and_log_event that runs before `with self.lock`.  The accept
\* thread goes round to `while self.running` and is at accept() again, or
\* has left the loop.
LogReceive(h, message) ==
    /\ n_msg < MaxMsgs
    /\ accepting
    /\ accepting' = running
    /\ handler[h].pc = "idle"
    /\ \A g \in Handlers : handler[g].pc = "idle" => h <= g
    /\ n_msg' = n_msg + 1
    /\ LET parsed == ParseFrom(message, 1, EmptyEventData)
       IN  IF message # <<>> /\ Valid(parsed)
           THEN \E now \in Clock :
                    handler' = [handler EXCEPT ![h] =
                        [@ EXCEPT !.pc = "lock_wait",
                                  !.late = Discards > 0,
                                  !.event_data = Some(Logged(parsed.event_data, now))]]
           ELSE handler' = Released(h)
    /\ UNCHANGED <<events, log_tasks, task_counters, log_lock, lock_order>>
    /\ UNCHANGED <<readVars, running, signal_pc, log_main, exported>>

\* A connection from a sender that is not one of the modelled programs.
LogAccept(h, message) ==
    /\ LogReceive(h, message)
    /\ UNCHANGED <<schedVars, histVars, nodeVars, legVars, simVars>>

\* with self.lock:
LogAcquire(h) ==
    /\ handler[h].pc = "lock_wait"
    /\ LockIsFree(log_lock)
    /\ log_lock' = h
    /\ lock_order' = Append(lock_order, handler[h].event_data[1])
    /\ handler' = [handler EXCEPT ![h].pc = "append"]
    /\ UNCHANGED <<events, log_tasks, task_counters, n_msg>>
    /\ UNCHANGED <<schedVars, histVars, nodeVars, readVars, shutVars, legVars, simVars>>

\* Faulty variant: the event is inserted at the front of the log.
LogPrepend(h) ==
    /\ handler[h].pc = "append"
    /\ events' = <<handler[h].event_data[1]>> \o events
    /\ handler' = [handler EXCEPT ![h] = [@ EXCEPT !.pc = "process", !.idx = 1]]
    /\ UNCHANGED <<log_tasks, task_counters, log_lock, n_msg, lock_order>>
    /\ UNCHANGED <<schedVars, histVars, nodeVars, readVars, shutVars, legVars, simVars>>

\* self.events.append(event_data)
LogAppend(h) ==
    /\ handler[h].pc = "append"
    /\ events' = Append(events, handler[h].event_data[1])
    /\ handler' = [handler EXCEPT ![h] = [@ EXCEPT !.pc = "process",
                                                   !.idx = Len(events) + 1]]
    /\ UNCHANGED <<log_tasks, task_counters, log_lock, n_msg, lock_order>>
    /\ UNCHANGED <<schedVars, histVars, nodeVars, readVars, shutVars, legVars, simVars>>

\* The handler's own event_data: the dict object at its index of the log.
Own(h) == events[handler[h].idx]

\* Faulty variant: an event without TASK advances a counter of its own.
LogOtherCounts(h) ==
    /\ handler[h].pc = "process"
    /\ \/ Own(h).task_name = None
       \/ Own(h).event \notin {"TASK_ASSIGNED", "TASK_FINISHED"}
    /\ task_counters' =
           [k \in DOMAIN task_counters \cup {""} |->
               IF k = "" THEN (IF "" \in DOMAIN task_counters THEN task_counters[""] ELSE 0) + 1
               ELSE task_counters[k]]
    /\ log_lock' = Free
    /\ handler' = Released(h)
    /\ UNCHANGED <<events, log_tasks, n_msg, lock_order>>
    /\ UNCHANGED <<schedVars, histVars, nodeVars, readVars, shutVars, legVars, simVars>>

\* _process_event for an event without TASK, a TASK_REQUESTED event or an
\* unknown event name: nothing but the return.
LogOther(h) ==
    /\ handler[h].pc = "process"
    /\ \/ Own(h).task_name = None
       \/ Own(h).event \notin {"TASK_ASSIGNED", "TASK_FINISHED"}
    /\ log_lock' = Free
    /\ handler' = Released(h)
    /\ UNCHANGED <<events, log_tasks, task_counters, n_msg, lock_order>>
    /\ UNCHANGED <<schedVars, histVars, nodeVars, readVars, shutVars, legVars, simVars>>

\* Faulty variant: the counter is not advanced.
CounterKept(c) == c

\* self.task_counters[task_name] += 1
CounterNext(c) == c + 1

\* f"{task_name}_{self.task_counters[task_name]}"
InstanceId(task_name, counter) == task_name \o "_" \o ToString(counter)

\* Position of key id in the dict (insertion order), 0 if it is not a key.
KeyIndex(d, id) ==
    IF \E k \in 1..Len(d) : d[k].id = id
    THEN CHOOSE k \in 1..Len(d) : d[k].id = id
    ELSE 0

\* self.tasks[task_instance] = {...}: a new key goes last, an existing key
\* keeps its position and gets the new value.
DictPut(d, id, entry) ==
    IF KeyIndex(d, id) = 0 THEN Append(d, entry)
    ELSE [d EXCEPT ![KeyIndex(d, id)] = entry]

\* Faulty variant: an entry that has a finished_time matches too.
AnyMatches(d, task_name, node) ==
    {k \in 1..Len(d) : d[k].task_name = task_name /\ d[k].node = node}

\* Faulty variant: the node of the entry is not compared.
OpenMatchesAnyNode(d, task_name, node) ==
    {k \in 1..Len(d) : d[k].task_name = task_name /\ d[k].finished_time = None}

\* The entries a TASK_FINISHED for (task_name, node) may complete.
OpenMatches(d, task_name, node) ==
    {k \in 1..Len(d) : /\ d[k].task_name = task_name
                       /\ d[k].node = node
                       /\ d[k].finished_time = None}

\* Faulty variant: the scan runs in insertion order.
FindOldest(d, task_name, node) ==
    LET S == OpenMatches(d, task_name, node)
    IN  IF S = {} THEN 0 ELSE CHOOSE k \in S : \A j \in S : k <= j

\* for tid, tdata in reversed(list(self.tasks.items())): ... break
\* The position of the first match of the reversed scan, 0 if there is none.
FindOpen(d, task_name, node) ==
    LET S == OpenMatches(d, task_name, node)
    IN  IF S = {} THEN 0 ELSE CHOOSE k \in S : \A j \in S : j <= k

\* _process_event, TASK_ASSIGNED branch (lines 134-150).
LogAssigned(h) ==
    /\ handler[h].pc = "process"
    /\ Own(h).task_name # None
    /\ Own(h).event = "TASK_ASSIGNED"
    /\ LET task_name == Own(h).task_name[1]
           counter == CounterNext(IF task_name \in DOMAIN task_counters
                                  THEN task_counters[task_name] ELSE 0)
           task_instance == InstanceId(task_name, counter)
       IN  /\ task_counters' =
                  [k \in DOMAIN task_counters \cup {task_name} |->
                      IF k = task_name THEN counter ELSE task_counters[k]]
           /\ events' = [events EXCEPT
                  ![handler[h].idx].task_instance = Some(task_instance)]
           /\ log_tasks' = DictPut(log_tasks, task_instance,
                  [id |-> task_instance,
                   task_name |-> task_name,
                   node |-> Own(h).node,
                   assigned_time |-> Own(h).time,
                   events |-> <<handler[h].idx>>,
                   finished_time |-> None,
                   duration |-> None])
    /\ log_lock' = Free
    /\ handler' = Released(h)
    /\ UNCHANGED <<n_msg, lock_order>>
    /\ UNCHANGED <<schedVars, histVars, nodeVars, readVars, shutVars, legVars, simVars>>

\* _process_event, TASK_FINISHED branch up to the assignment of
\* finished_time (lines 156-171).
LogFinished(h) ==
    /\ handler[h].pc = "process"
    /\ Own(h).task_name # None
    /\ Own(h).event = "TASK_FINISHED"
    /\ LET k == FindOpen(log_tasks, Own(h).task_name[1], Own(h).node)
       IN  IF k = 0
           THEN /\ log_lock' = Free
                /\ handler' = Released(h)
                /\ UNCHANGED <<events, log_tasks>>
           ELSE /\ events' = [events EXCEPT
                       ![handler[h].idx].task_instance = Some(log_tasks[k].id)]
                /\ log_tasks' = [log_tasks EXCEPT
                       ![k].events = Append(@, handler[h].idx),
                       ![k].finished_time = Some(Own(h).time)]
                /\ handler' = [handler EXCEPT ![h] =
                       [@ EXCEPT !.pc = "duration", !.tid = Some(log_tasks[k].id)]]
                /\ UNCHANGED log_lock
    /\ UNCHANGED <<task_counters, n_msg, lock_order>>
    /\ UNCHANGED <<schedVars, histVars, nodeVars, readVars, shutVars, legVars, simVars>>

\* Faulty variant: the with block ends without the duration stored.
LogDurationSkipped(h) ==
    /\ handler[h].pc = "duration"
    /\ log_lock' = Free
    /\ handler' = Released(h)
    /\ UNCHANGED <<events, log_tasks, task_counters, n_msg, lock_order>>
    /\ UNCHANGED <<schedVars, histVars, nodeVars, readVars, shutVars, legVars, simVars>>

\* duration = event_data['time'] - assigned_time; stored; the with block
\* ends (lines 174-178).
LogDuration(h) ==
    /\ handler[h].pc = "duration"
    /\ LET k == KeyIndex(log_tasks, handler[h].tid[1])
       IN  log_tasks' = [log_tasks EXCEPT
               ![k].duration = Some(Own(h).time - log_tasks[k].assigned_time)]
    /\ log_lock' = Free
    /\ handler' = Released(h)
    /\ UNCHANGED <<events, task_counters, n_msg, lock_order>>
    /\ UNCHANGED <<schedVars, histVars, nodeVars, readVars, shutVars, legVars, simVars>>

\* The Logger alone: the scheduler has nothing seeded and no peer.
LogInit ==
    /\ tasks = <<>>
    /\ SchedInit
    /\ LoggerInit
    /\ SimAbsent
    /\ LegacyAbsent
    /\ wpc = [w \in Workers |-> "absent"]
    /\ wtask = [w \in Workers |-> NoTask]
    /\ wrested = [w \in Workers |-> FALSE]
    /\ inbox = [w \in Workers |-> EmptyInbox]
    /\ wlog = [w \in Workers |-> <<>>]

LogNext ==
    \/ Start
    \/ StartListen
    \/ StartFails
    \/ \E h \in Handlers, message \in LogMessages : LogAccept(h, message)
    \/ \E h \in Handlers : LogAcquire(h)
    \/ \E h \in Handlers : LogAppend(h)
    \/ \E h \in Handlers : LogOther(h)
    \/ \E h \in Handlers : LogAssigned(h)
    \/ \E h \in Handlers : LogFinished(h)
    \/ \E h \in Handlers : LogDuration(h)

LogSpec == LogInit /\ [][LogNext]_vars

\* Senders that leave the TASK key out of some of their events.
BareMessages ==
    {event_msg("node1", "TASK_ASSIGNED", "100.0", matmul_task),
     event_msg("node1", "TASK_FINISHED", "102.5", matmul_task),
     <<"NODE", "node1", "EVENT", "TASK_ASSIGNED", "TIME", "100.0">>,
     <<"NODE", "node1", "EVENT", "TASK_FINISHED", "TIME", "102.5">>,
     <<"NODE", "node1", "EVENT", "TASK_FINISHED">>}

BareNext ==
    \/ Start
    \/ StartListen
    \/ StartFails
    \/ \E h \in Handlers, message \in BareMessages : LogAccept(h, message)
    \/ \E h \in Handlers : LogAcquire(h)
    \/ \E h \in Handlers : LogAppend(h)
    \/ \E h \in Handlers : LogOther(h)
    \/ \E h \in Handlers : LogAssigned(h)
    \/ \E h \in Handlers : LogFinished(h)
    \/ \E h \in Handlers : LogDuration(h)

BareSpec == LogInit /\ [][BareNext]_vars

\* ------------------------------------------------- Logger claim vocabulary


\* TASK_ASSIGNED events carrying a task name, by index in the event log.
AssignedEvents ==
    {i \in 1..Len(events) : /\ events[i].event = "TASK_ASSIGNED"
                            /\ events[i].task_name # None}

\* Those that _process_event has handled.
AssignedProcessed == {i \in AssignedEvents : events[i].task_instance # None}

\* How many of the first j instances have the task type of the j-th.
Rank(j) ==
    Cardinality({i \in 1..j : log_tasks[i].task_name = log_tasks[j].task_name})

\* Number of elements of S that are at most i.
Position(S, i) == Cardinality({x \in S : x <= i})

\* C12: instance id uniqueness.  The k-th TASK_ASSIGNED event for task type
\* T creates the instance T_k: the j-th TaskInstance belongs to the j-th such
\* event of the log, its id is its type followed by its rank among the
\* instances of that type (so ids of one type increase in insertion order),
\* no event overwrites an instance (as many instances as events handled),
\* no two instances share an id, and the type's counter is the number of
\* its instances.
InstanceIdsUnique ==
    /\ Len(log_tasks) = Cardinality(AssignedProcessed)
    /\ \A j \in 1..Len(log_tasks) :
           /\ log_tasks[j].id = InstanceId(log_tasks[j].task_name, Rank(j))
           /\ log_tasks[j].events[1] \in AssignedProcessed
           /\ Position(AssignedProcessed, log_tasks[j].events[1]) = j
           /\ events[log_tasks[j].events[1]].task_instance = Some(log_tasks[j].id)
           /\ events[log_tasks[j].events[1]].task_name = Some(log_tasks[j].task_name)
           /\ log_tasks[j].task_name \in DOMAIN task_counters
           /\ Rank(j) <= task_counters[log_tasks[j].task_name]
    /\ \A i, j \in 1..Len(log_tasks) : i # j => log_tasks[i].id # log_tasks[j].id
    /\ \A name \in DOMAIN task_counters :
           task_counters[name] =
               Cardinality({j \in 1..Len(log_tasks) : log_tasks[j].task_name = name})

\* C12 witness: three instances, two of type matmul assigned to different
\* nodes (matmul_1, matmul_2) and one of the type named matmul_1, whose id
\* matmul_1_1 differs from both.
InstanceIdsUniqueWitness ==
    /\ Len(log_tasks) = 3
    /\ \E i, j, k \in 1..3 :
           /\ i < j
           /\ log_tasks[i].task_name = matmul_task /\ log_tasks[i].id = "matmul_1"
           /\ log_tasks[j].task_name = matmul_task /\ log_tasks[j].id = "matmul_2"
           /\ log_tasks[i].node # log_tasks[j].node
           /\ log_tasks[k].task_name = "matmul_1" /\ log_tasks[k].id = "matmul_1_1"

\* The open instances of a type and node: no finished_time yet.
OpenInstances(task_name, node) ==
    {k \in 1..Len(log_tasks) : /\ log_tasks[k].task_name = task_name
                               /\ log_tasks[k].node = node
                               /\ log_tasks[k].finished_time = None}

\* The most recently inserted instance among S.
Newest(S) == CHOOSE k \in S : \A j \in S : j <= k

\* Handler h takes the step of _process_event that handles a TASK_FINISHED
\* event carrying a task name.
FinishStep(h) ==
    /\ handler[h].pc = "process"
    /\ handler'[h] # handler[h]
    /\ Own(h).event = "TASK_FINISHED"
    /\ Own(h).task_name # None

\* C13: finish correlation rule.  A TASK_FINISHED event for type T from node
\* N completes exactly the most recently inserted instance of type T and
\* node N that has no finished_time, whatever the TIME values are: that
\* instance gets the event and its time, every other instance is unchanged.
FinishCorrelation ==
    [][\A h \in Handlers :
           FinishStep(h) =>
               LET S == OpenInstances(Own(h).task_name[1], Own(h).node)
               IN  S # {} =>
                       /\ Len(log_tasks') = Len(log_tasks)
                       /\ log_tasks'[Newest(S)] =
                              [log_tasks[Newest(S)] EXCEPT
                                  !.finished_time = Some(Own(h).time),
                                  !.events = Append(@, handler[h].idx)]
                       /\ \A j \in 1..Len(log_tasks) :
                              j # Newest(S) => log_tasks'[j] = log_tasks[j]
                       /\ events'[handler[h].idx].task_instance =
                              Some(log_tasks[Newest(S)].id)]_vars

\* C13 witness: node1 had two open matmul instances, the older one with the
\* later assigned_time; two finishes closed them newest-first (the newer
\* instance holds the earlier finish event).
FinishCorrelationWitness ==
    /\ log_lock = Free
    /\ Len(log_tasks) = 2
    /\ log_tasks[1].task_name = log_tasks[2].task_name
    /\ log_tasks[1].node = log_tasks[2].node
    /\ log_tasks[1].assigned_time > log_tasks[2].assigned_time
    /\ Len(log_tasks[1].events) = 2
    /\ Len(log_tasks[2].events) = 2
    /\ log_tasks[2].events[2] < log_tasks[1].events[2]
    /\ log_tasks[1].events[1] < log_tasks[2].events[2]

\* C14: orphaned finish.  A TASK_FINISHED event with no open instance of its
\* type and node is in the event log and stays there as it is, changes no
\* TaskInstance, creates none, leaves the counters alone, and its handler
\* leaves the lock free and ends, so later events are processed.
OrphanedFinish ==
    [][\A h \in Handlers :
           (FinishStep(h) /\ OpenInstances(Own(h).task_name[1], Own(h).node) = {})
               => /\ handler[h].idx \in 1..Len(events)
                  /\ Own(h).task_instance = None
                  /\ UNCHANGED <<events, log_tasks, task_counters>>
                  /\ log_lock' = Free
                  /\ handler'[h] = IdleHandler]_vars

\* C14 witness: the first event of the log is a TASK_FINISHED that arrived
\* before any TASK_ASSIGNED; it is correlated to no instance, and the
\* TASK_ASSIGNED of the same type and node that came after it was processed
\* and is still open.
OrphanedFinishWitness ==
    /\ log_lock = Free
    /\ Len(events) >= 2
    /\ events[1].event = "TASK_FINISHED"
    /\ events[1].task_name # None
    /\ events[1].task_instance = None
    /\ Len(log_tasks) = 1
    /\ log_tasks[1].events = <<2>>
    /\ Some(log_tasks[1].task_name) = events[1].task_name
    /\ log_tasks[1].node = events[1].node
    /\ log_tasks[1].finished_time = None

\* The log holds exactly ASSIGNED at TIME 100 and then FINISHED at TIME 102.5
\* for the same node and type, both handled.
AssignedThenFinished ==
    /\ log_lock = Free
    /\ Len(events) = 2
    /\ events[1].event = "TASK_ASSIGNED" /\ events[1].time = FloatValue["100.0"]
    /\ events[2].event = "TASK_FINISHED" /\ events[2].time = FloatValue["102.5"]
    /\ events[1].task_name # None
    /\ events[1].task_name = events[2].task_name
    /\ events[1].node = events[2].node

\* C15: in every state with the Logger lock free, a TaskInstance has a
\* duration if and only if it has a finished_time, and then the duration is
\* finished_time - assigned_time; ASSIGNED at 100 then FINISHED at 102.5 for
\* the same node and type gives one completed instance of duration 2.5
\* (5 half seconds).
DurationIffFinished ==
    log_lock = Free =>
        /\ \A k \in 1..Len(log_tasks) :
               /\ (log_tasks[k].duration # None) <=> (log_tasks[k].finished_time # None)
               /\ log_tasks[k].finished_time # None =>
                      log_tasks[k].duration =
                          Some(log_tasks[k].finished_time[1] - log_tasks[k].assigned_time)
        /\ AssignedThenFinished =>
               /\ Len(log_tasks) = 1
               /\ log_tasks[1].duration = Some(5)

\* C15 witness: the scenario of the claim has been ingested and the one
\* instance is completed.
DurationIffFinishedWitness ==
    /\ AssignedThenFinished
    /\ log_tasks[1].finished_time = Some(FloatValue["102.5"])
    /\ log_tasks[1].duration # None

\* C16: whenever TASK_ASSIGNED for type T from node A is followed by
\* TASK_FINISHED for type T from node A, the instance's duration is defined
\* and non-negative, whatever TIME values the two messages carry.
DurationNonNegative ==
    log_lock = Free =>
        \A k \in 1..Len(log_tasks) :
            Len(log_tasks[k].events) = 2 =>
                /\ log_tasks[k].duration # None
                /\ log_tasks[k].duration[1] >= 0

\* The message lacks NODE or EVENT (no such key followed by a value), or the
\* value after a TIME key is not a number.
Malformed(message) ==
    LET parsed == ParseFrom(message, 1, EmptyEventData)
    IN  \/ parsed.raised
        \/ parsed.event_data.node = None
        \/ parsed.event_data.event = None

MalformedMessages == {message \in LogMessages : Malformed(message)}

\* C17: a message that lacks NODE or EVENT, or whose TIME value is not a
\* number, is discarded: the step that receives it leaves the event log, the
\* instance table and the counters unchanged, never brings its handler to
\* the lock, and leaves the handler free for the next connection.
MalformedDiscarded ==
    [][\A h \in Handlers, message \in MalformedMessages :
           (n_msg' = n_msg + 1 /\ LogAccept(h, message))
               => /\ UNCHANGED <<events, log_tasks, task_counters, log_lock>>
                  /\ handler'[h] = IdleHandler
                  /\ Discards' = Discards + 1]_vars

\* C17 witness: a message accepted after a discarded one holds the lock and
\* has been appended to the event log.
MalformedDiscardedWitness ==
    \E h \in Handlers :
        /\ handler[h].pc = "process"
        /\ handler[h].late
        /\ Discards > 0
        /\ Len(events) = 1

\* An event as it was appended: without the task_instance key that
\* _process_event adds to it while its handler still holds the lock.
AsAppended(event_data) == [event_data EXCEPT !.task_instance = None]

\* Handler h, holding the lock, takes the _process_event step for its own
\* event, the one at index i of the log.
ProcessesOwn(h, i) ==
    /\ handler[h].pc = "process"
    /\ handler[h].idx = i
    /\ handler'[h] # handler[h]

\* C18: the event log is append-only.  The log is, in order, the events of
\* the handlers that acquired the lock (all of them once the lock is free);
\* a step adds at most one event, at the end; and an event in the log is
\* never deleted, moved or changed afterwards, except that the handler that
\* appended it adds its task_instance before releasing the lock.
EventLogAppendOnly ==
    /\ [](/\ Len(events) <= Len(lock_order)
          /\ \A i \in 1..Len(events) : AsAppended(events[i]) = lock_order[i]
          /\ log_lock = Free => Len(events) = Len(lock_order))
    /\ [][/\ Len(events') \in {Len(events), Len(events) + 1}
          /\ \A i \in 1..Len(events) :
                 \/ events'[i] = events[i]
                 \/ /\ \E h \in Handlers : ProcessesOwn(h, i)
                    /\ events[i].task_instance = None
                    /\ AsAppended(events'[i]) = events[i]]_vars

\* C18 witness: three events from the two handler threads are in the log,
\* the first and the last correlated to instances, and the lock is free.
EventLogAppendOnlyWitness ==
    /\ log_lock = Free
    /\ Len(events) = 3
    /\ Len(lock_order) = 3
    /\ events[1].task_instance # None
    /\ events[3].task_instance # None
    /\ events[1].event # events[3].event
    /\ \E h \in Handlers : handler[h].pc = "lock_wait"

\* ----------------------------------------------------------- Logger reader

\* The dict get_all_stats() builds under the lock.  dict(self.tasks) and
\* list(self.events) are shallow copies: the keys and the order are copied,
\* the values are the Logger's own entry and event objects.  An object is
\* modelled by its reference: an entry by its key, an event by its index.
AllStats ==
    [total_events |-> Len(events),
     total_tasks |-> Len(log_tasks),
     tasks |-> [k \in 1..Len(log_tasks) |-> log_tasks[k].id],
     events |-> [i \in 1..Len(events) |-> i]]

\* What a reader sees in the returned dict now: every reference followed.
Seen(stats) ==
    [total_events |-> stats.total_events,
     total_tasks |-> stats.total_tasks,
     tasks |-> [k \in DOMAIN stats.tasks |->
                   log_tasks[KeyIndex(log_tasks, stats.tasks[k])]],
     events |-> [i \in DOMAIN stats.events |-> events[stats.events[i]]]]

\* A reader calls get_all_stats(): with self.lock: return {...}.
GetAllStats ==
    /\ snapshot = None
    /\ LockIsFree(log_lock)
    /\ snapshot' = Some(AllStats)
    /\ returned' = Some(Seen(AllStats))
    /\ UNCHANGED <<events, log_tasks, task_counters, log_lock, handler, n_msg,
                   lock_order>>
    /\ UNCHANGED <<schedVars, histVars, nodeVars, shutVars, legVars, simVars>>

\* The Logger with one reader.
ReadNext ==
    \/ LogNext
    \/ GetAllStats

ReadSpec == LogInit /\ [][ReadNext]_vars

\* C19: Logger reads return a consistent snapshot.  What the reader holds
\* after get_all_stats() returned is the Logger state of the instant of the
\* read: no instance in it gains finished_time or duration later, and none
\* shows a finished_time without a duration.
SnapshotStable ==
    snapshot # None =>
        /\ Seen(snapshot[1]) = returned[1]
        /\ \A k \in DOMAIN snapshot[1].tasks :
               Seen(snapshot[1]).tasks[k].finished_time # None
                   => Seen(snapshot[1]).tasks[k].duration # None

\* C20: event append and instance-table update are one atomic step for the
\* other handlers.  In every state with the Logger lock free there are as
\* many TaskInstances as TASK_ASSIGNED events carrying a task name in the
\* log, and the events list of an instance is its ASSIGNED event followed by
\* at most one FINISHED event.
AppendAndUpdateAtomic ==
    log_lock = Free =>
        /\ Len(log_tasks) = Cardinality(AssignedEvents)
        /\ \A k \in 1..Len(log_tasks) :
               LET ev == log_tasks[k].events
               IN  /\ Len(ev) \in {1, 2}
                   /\ ev[1] \in AssignedEvents
                   /\ events[ev[1]].task_instance = Some(log_tasks[k].id)
                   /\ Len(ev) = 2 =>
                          /\ ev[1] < ev[2]
                          /\ ev[2] \in 1..Len(events)
                          /\ events[ev[2]].event = "TASK_FINISHED"
                          /\ events[ev[2]].task_instance = Some(log_tasks[k].id)

\* C20 witness: with the lock free the log holds a TASK_ASSIGNED without a
\* task name (no instance), an instance with its ASSIGNED and FINISHED
\* events and an instance with its ASSIGNED event only.
AppendAndUpdateAtomicWitness ==
    /\ log_lock = Free
    /\ Len(events) = 4
    /\ \E i \in 1..4 : events[i].event = "TASK_ASSIGNED" /\ events[i].task_name = None
    /\ Len(log_tasks) = 2
    /\ \E j, k \in 1..2 : Len(log_tasks[j].events) = 2 /\ Len(log_tasks[k].events) = 1

\* --------------------------------------------------------- Logger shutdown
\* src/scheduler/logger/run_logger.py: signal_handler runs in the main
\* thread on SIGINT/SIGTERM while the accept loop and the handler threads
\* (daemon threads) keep running.

\* The work of the Logger's own threads leaves the main thread where it is.
logData == <<events, log_tasks, task_counters, log_lock, handler, n_msg,
             lock_order>>

\* SIGINT or SIGTERM is delivered to the running program, before, during
\* or after logger.start(): signal_handler starts.
Signal ==
    /\ signal_pc = "serving"
    /\ log_main # "failed"
    /\ signal_pc' = "print_summary"
    /\ UNCHANGED <<log_main, running, accepting, exported, logData, readVars>>
    /\ UNCHANGED <<schedVars, histVars, nodeVars, legVars, simVars>>

\* logger.print_summary(): with self.lock, prints only.
PrintSummary ==
    /\ signal_pc = "print_summary"
    /\ LockIsFree(log_lock)
    /\ signal_pc' = "export_to_file"
    /\ UNCHANGED <<log_main, running, accepting, exported, logData, readVars>>
    /\ UNCHANGED <<schedVars, histVars, nodeVars, legVars, simVars>>

\* The text json.dump writes for the data dict: every reference followed.
Dumped == [events |-> events, tasks |-> log_tasks]

\* logger.export_to_file(filename): with self.lock, json.dump(data, f).
ExportToFile ==
    /\ signal_pc = "export_to_file"
    /\ LockIsFree(log_lock)
    /\ exported' = Some(Dumped)
    /\ signal_pc' = "stop"
    /\ UNCHANGED <<log_main, running, accepting, logData, readVars>>
    /\ UNCHANGED <<schedVars, histVars, nodeVars, legVars, simVars>>

\* logger.stop(), line 36: self.running = False.  The accept thread is not
\* woken: it is still at accept() on the open socket.
Stop ==
    /\ signal_pc = "stop"
    /\ running' = FALSE
    /\ signal_pc' = "close"
    /\ UNCHANGED <<log_main, accepting, exported, logData, readVars>>
    /\ UNCHANGED <<schedVars, histVars, nodeVars, legVars, simVars>>

\* logger.stop(), lines 37-38: `if self.server_socket:` close() (nothing to
\* close before start() made the socket); accept() on the closed socket
\* raises and the accept thread breaks out of its loop.
StopClose ==
    /\ signal_pc = "close"
    /\ accepting' = FALSE
    /\ signal_pc' = "exit"
    /\ UNCHANGED <<log_main, running, exported, logData, readVars>>
    /\ UNCHANGED <<schedVars, histVars, nodeVars, legVars, simVars>>

\* accept() times out after 1.0 s (`except socket.timeout: continue`) and
\* `while self.running` ends the accept thread.
AcceptTimeout ==
    /\ accepting
    /\ ~running
    /\ accepting' = FALSE
    /\ UNCHANGED <<log_main, running, signal_pc, exported, logData, readVars>>
    /\ UNCHANGED <<schedVars, histVars, nodeVars, legVars, simVars>>

\* sys.exit(0): the process ends and its daemon threads end with it,
\* wherever they are.
Exit ==
    /\ signal_pc = "exit"
    /\ signal_pc' = "exited"
    /\ handler' = [h \in Handlers |-> [handler[h] EXCEPT !.pc = "killed"]]
    /\ accepting' = FALSE
    /\ UNCHANGED <<events, log_tasks, task_counters, log_lock, n_msg, lock_order>>
    /\ UNCHANGED <<log_main, running, exported, readVars>>
    /\ UNCHANGED <<schedVars, histVars, nodeVars, legVars, simVars>>

\* The Logger process of run_logger.py with its signal handler.
ShutNext ==
    \/ LogNext
    \/ Signal
    \/ PrintSummary
    \/ ExportToFile
    \/ Stop
    \/ StopClose
    \/ AcceptTimeout
    \/ Exit

ShutSpec == LogInit /\ [][ShutNext]_vars

\* C21: Logger shutdown ordering.  Accepting stops first, the in-flight
\* handlers finish, and only then the state is exported, so every event
\* that is ever appended to the event log is in the exported snapshot.
ExportHoldsEveryEvent ==
    exported # None =>
        /\ Len(events) = Len(exported[1].events)
        /\ \A i \in 1..Len(events) :
               AsAppended(events[i]) = AsAppended(exported[1].events[i])

\* ------------------------------------------------- Node Worker: claims
\* Entries of Node Worker w's history of the given kind.
Entries(w, kind) == {i \in DOMAIN wlog[w] : wlog[w][i][1] = kind}

\* Every handler thread of the peer has ended.
AllClosed == \A t \in Threads : thread[t].pc = "idle"

\* ------------------------------------------------------------------ C22
\* C22 (REST): once the reply to a Node Worker's TASK|REQUEST is
\* TASK|ASSIGN|REST, the worker has left its loop through the REST break and
\* its run is over: the REST reply is the last thing in its history, so no
\* task is executed, no TASK|FINISH and no further TASK|REQUEST is sent.
RestEndsRun ==
    \A w \in Workers : \A i \in Entries(w, "REPLY") :
        wlog[w][i][2] = "REST" =>
            /\ i = Len(wlog[w])
            /\ wpc[w] = "exited"
            /\ wrested[w]

\* A worker that ran a task, sent its TASK|FINISH, asked again and got REST,
\* with every connection closed since.
RestEndsRunWitness ==
    \E w \in Workers :
        /\ Entries(w, "FINISH") # {}
        /\ wlog[w][Len(wlog[w])] = <<"REPLY", "REST">>
        /\ wpc[w] = "exited"
        /\ AllClosed

\* The task types task_runner has a branch for.
Catalog == {"matmul", "primes", "array", "fileIO"}

\* ------------------------------------------------------------------ C23
\* C23 (unknown task type): after a reply that names a task type outside
\* the Task Catalog the worker sends no TASK|FINISH and no TASK|REQUEST.
UnknownTypeFatal ==
    \A w \in Workers : \A i \in Entries(w, "REPLY") :
        wlog[w][i][2] \notin Catalog \cup {"REST", ""} =>
            \A j \in DOMAIN wlog[w] :
                j > i => wlog[w][j][1] \notin {"FINISH", "REQUEST"}

\* ------------------------------------------------------------------ C24
\* C24 (registration not confirmed): a Node Worker sends TASK|REQUEST only
\* after a confirmation whose third field is 'true'; after a refused
\* connection, an empty or short reply or another third field it sends none.
UnconfirmedNeverRequests ==
    \A w \in Workers : \A i \in Entries(w, "REQUEST") :
        /\ Entries(w, "REFUSED") = {}
        /\ \E j \in Entries(w, "CONFIRMATION") : j < i /\ wlog[w][j][2] = "true"

\* A worker whose registration was answered REGISTER|CONFIRM|false|... and
\* which has ended without a TASK|REQUEST, every connection closed since.
UnconfirmedNeverRequestsWitness ==
    \E w \in Workers :
        /\ wlog[w] = <<<<"REGISTER", WorkerHost(w)>>, <<"CONFIRMATION", "false">>>>
        /\ wpc[w] = "exited"
        /\ AllClosed

\* ------------------------------------------------------------------ C27
\* An entry of a worker's history that is a non-REST assignment.
IsAssignment(entry) == entry[1] = "REPLY" /\ entry[2] \notin {"REST", ""}

\* C27 (worker protocol order): in a Node Worker's history every non-REST
\* assignment is followed directly by one execution of that task and that by
\* one TASK|FINISH, every execution and TASK|FINISH has its assignment
\* directly before it, a TASK|REQUEST is sent only as the first step or
\* directly after a TASK|FINISH, and while a TASK|REQUEST of the worker is
\* outstanding it has sent a TASK|FINISH for every assignment it received.
WorkerProtocolOrder ==
    \A w \in Workers :
        /\ \A i \in DOMAIN wlog[w] :
              LET entry == wlog[w][i] IN
              /\ (IsAssignment(entry) /\ i < Len(wlog[w])) =>
                     wlog[w][i + 1] = <<"EXECUTE", entry[2]>>
              /\ entry[1] = "EXECUTE" =>
                     /\ i > 1 /\ wlog[w][i - 1] = <<"REPLY", entry[2]>>
                     /\ i < Len(wlog[w]) => wlog[w][i + 1] = <<"FINISH", entry[2]>>
              /\ entry[1] = "FINISH" =>
                     i > 1 /\ wlog[w][i - 1] = <<"EXECUTE", entry[2]>>
              /\ entry[1] = "REQUEST" =>
                     i = 1 \/ wlog[w][i - 1][1] = "FINISH"
        /\ wpc[w] = "request_recv" =>
              Cardinality({i \in DOMAIN wlog[w] : IsAssignment(wlog[w][i])})
                  = Cardinality(Entries(w, "FINISH"))

\* A worker that has run two assignments, sent TASK|FINISH for each, and has
\* its third TASK|REQUEST outstanding.
WorkerProtocolOrderWitness ==
    \E w \in Workers :
        /\ Cardinality(Entries(w, "FINISH")) = 2
        /\ Cardinality(Entries(w, "EXECUTE")) = 2
        /\ wpc[w] = "request_recv"

\* ------------------------------------------------------------------ C30
\* C30 (execution failure): once the task body has raised in a Node Worker,
\* the worker has ended with the raise as the last entry of its history (no
\* TASK|FINISH for the assignment, no retry, no further TASK|REQUEST), and
\* the scheduler's in-flight map still holds the assignment under the
\* worker's address.
RaiseEndsWorker ==
    \A w \in Workers : \A i \in Entries(w, "RAISE") :
        /\ i = Len(wlog[w])
        /\ wpc[w] = "exited"
        /\ WorkerIp(w) \in DOMAIN processing_tasks
        /\ processing_tasks[WorkerIp(w)] = wlog[w][i][2]

\* ------------------------------------------------------------------ C26
\* Positions inside `with node_lock:`.
NodeSection == {"reg_check", "reg_append"}

\* A message manage_node rejects before it takes a lock: fewer than two
\* fields, TASK|FINISH with no duration or one float() rejects (and any
\* other message no branch handles).
Rejected(message) == Dispatch(message) = "finally"

\* C26 (error isolation): a lock is only ever held by a handler that is
\* inside the lock's with block, so a handler that failed (rejected
\* message, failed send, exception) holds none; every step of a handler whose
\* message was rejected leaves the task tables, the registry and both locks
\* as they were; and such a handler is accepted and closed like any other.
ErrorIsolation ==
    /\ [](/\ task_lock # Free => thread[task_lock].pc \in TaskSection
          /\ node_lock # Free => thread[node_lock].pc \in NodeSection
          /\ \A t \in Threads : thread[t].err => thread[t].pc = "finally")
    /\ [][\A t \in Threads :
             (/\ thread'[t] # thread[t]
              /\ \/ Rejected(thread[t].message) /\ thread[t].pc # "idle"
                 \/ Rejected(thread'[t].message) /\ thread'[t].pc # "idle")
             => /\ UNCHANGED <<data, task_lock, node_lock>>
                /\ thread[t].pc = "idle" => thread'[t].pc = "finally"
                /\ thread[t].pc = "finally" => thread'[t] = IdleThread]_vars

\* The send of the first assignment failed, and the next TASK|REQUEST has
\* been served with the second task while a handler whose message was
\* rejected waits to be closed: both locks are free again.
ErrorIsolationWitness ==
    /\ tasks = <<"primes", "matmul">>
    /\ handed_out = <<"matmul">>
    /\ processing_tasks = ("10.0.0.1" :> "primes") @@ ("10.0.0.2" :> "matmul")
    /\ \E t \in Threads :
          /\ thread[t].pc = "finally"
          /\ thread[t].reply = AssignResponse("matmul")
    /\ \E u \in Threads :
          /\ thread[u].pc = "finally"
          /\ Rejected(thread[u].message)
    /\ task_lock = Free
    /\ node_lock = Free

\* ------------------------------------------------------------------ C28
\* How often task x is a value of the in-flight map.
InFlight(x) == Cardinality({ip \in DOMAIN processing_tasks : processing_tasks[ip] = x})

\* C28 (task conservation): whenever no handler is inside `with task_lock`,
\* every task type occurs in the waiting queue, the in-flight map and the
\* finished list together exactly as often as in the seeded list.
TaskConservation ==
    task_lock = Free =>
        \A x \in TaskNames :
            Count(waiting_tasks, x) + InFlight(x) + Count(finished_tasks, x)
                = Count(tasks, x)

\* ------------------------------------------------------- the legacy pair
\* Faulty variant: a failed send of the event ends the sender.
AfterEmitRaises(delivered, next) == IF delivered THEN next ELSE "exited"

\* send_logger_event catches every exception of its connect and sendall and
\* returns: the caller goes on at `next` whether the event was delivered or
\* not.
AfterEmit(delivered, next) == next

\* send_logger_event(message): the Logger accepts the connection and its
\* handler receives the message, or connect / sendall fails (refused, timed
\* out after settimeout(1.0), reset) and the except prints.
SendLoggerEvent(message, delivered) ==
    /\ emitted' = Append(emitted, <<message, delivered>>)
    /\ IF delivered
       THEN \E h \in Handlers : LogReceive(h, message)
       ELSE UNCHANGED <<logData, readVars, shutVars>>

\* The assign_task thread serving legacy worker w's connection.
ServedBy(w) == leg_sock[w].thread

\* The connection that `conn` names was left open by a thread that died; it
\* is closed when the last reference to the socket object goes away.
ConnReleased(socks) ==
    IF leg_conn # NoClient /\ socks[leg_conn].kept
    THEN [socks EXCEPT ![leg_conn].kept = FALSE, ![leg_conn].closed = TRUE]
    ELSE socks

\* while True: s.connect((host, port)) completes against the queue of the
\* scheduler's s.listen(), whatever the accept loop is doing, as long as the
\* listening socket is open.
LegConnect(w) ==
    /\ leg_pc[w] = "connect"
    /\ leg_main \in {"accept", "check"}
    /\ leg_backlog' = Append(leg_backlog, w)
    /\ leg_sock' = [leg_sock EXCEPT ![w] = NoSocket]
    /\ leg_pc' = [leg_pc EXCEPT ![w] = "emit_requested"]
    /\ UNCHANGED <<leg_seed, leg_conn, leg_tasks, leg_main, leg_thread, leg_task, emitted>>
    /\ UNCHANGED <<schedVars, histVars, nodeVars, logVars, simVars>>

\* conn, addr = s.accept() takes the oldest queued connection and rebinds
\* `conn`; node_thread.start() starts an assign_task thread, whose conn.recv
\* returns the status as soon as the worker has sent it.
LegAccept(t) ==
    /\ leg_main = "accept"
    /\ leg_backlog # <<>>
    /\ leg_thread[t].pc = "idle"
    /\ \A u \in Threads : u < t => leg_thread[u].pc # "idle"
    /\ LET w == Head(leg_backlog)
       IN  /\ leg_thread' = [leg_thread EXCEPT ![t] =
                                [pc |-> IF leg_sock[w].sent THEN "status" ELSE "recv",
                                 addr |-> WorkerIp(w),
                                 status |-> IF leg_sock[w].sent THEN "FINISH" ELSE "",
                                 task |-> NoTask, reply |-> NoReply, client |-> w]]
           /\ leg_sock' = [ConnReleased(leg_sock) EXCEPT ![w].thread = t, ![w].sent = FALSE]
           /\ leg_conn' = w
    /\ leg_backlog' = Tail(leg_backlog)
    /\ leg_main' = "check"
    /\ UNCHANGED <<leg_seed, leg_tasks, leg_pc, leg_task, emitted>>
    /\ UNCHANGED <<schedVars, histVars, nodeVars, logVars, simVars>>

\* After node_thread.start(): `if len(tasks) == 0: break`, which leaves the
\* `with socket` block and closes the listening socket; the connections
\* still queued on it are reset.
LegMainCheck ==
    /\ leg_main = "check"
    /\ IF Len(leg_tasks) = 0
       THEN /\ leg_main' = "done"
            /\ leg_backlog' = <<>>
            /\ leg_sock' = [w \in Workers |->
                               IF InList(w, leg_backlog)
                               THEN [leg_sock[w] EXCEPT !.reset = TRUE]
                               ELSE leg_sock[w]]
       ELSE /\ leg_main' = "accept"
            /\ UNCHANGED <<leg_backlog, leg_sock>>
    /\ UNCHANGED <<leg_seed, leg_conn, leg_tasks, leg_thread, leg_pc, leg_task, emitted>>
    /\ UNCHANGED <<schedVars, histVars, nodeVars, logVars, simVars>>

\* for thrd in t: thrd.join(), the last print, and the end of the program,
\* which closes every socket it still holds.
LegExit ==
    /\ leg_main = "done"
    /\ \A t \in Threads : leg_thread[t].pc = "idle"
    /\ leg_main' = "exited"
    /\ leg_sock' = ConnReleased(leg_sock)
    /\ UNCHANGED <<leg_seed, leg_backlog, leg_conn, leg_tasks, leg_thread, leg_pc, leg_task, emitted>>
    /\ UNCHANGED <<schedVars, histVars, nodeVars, logVars, simVars>>

\* s.connect raises ConnectionRefusedError (the listening socket is
\* closed): break.
LegRefused(w) ==
    /\ leg_pc[w] = "connect"
    /\ leg_main \in {"done", "exited"}
    /\ leg_pc' = [leg_pc EXCEPT ![w] = "exited"]
    /\ UNCHANGED <<leg_seed, leg_backlog, leg_conn, leg_tasks, leg_main, leg_thread, leg_task, leg_sock, emitted>>
    /\ UNCHANGED <<schedVars, histVars, nodeVars, logVars, simVars>>

\* event_msg = f"NODE {hostname} EVENT TASK_REQUESTED TIME {request_time}";
\* send_logger_event(event_msg).
LegEmitRequested(w, delivered) ==
    /\ leg_pc[w] = "emit_requested"
    /\ SendLoggerEvent(<<"NODE", WorkerHost(w), "EVENT", "TASK_REQUESTED",
                         "TIME", "100.0">>, delivered)
    /\ leg_pc' = [leg_pc EXCEPT ![w] = AfterEmit(delivered, "send_status")]
    /\ UNCHANGED <<leg_seed, leg_backlog, leg_conn, leg_tasks, leg_main, leg_thread, leg_task, leg_sock>>
    /\ UNCHANGED <<schedVars, histVars, nodeVars, simVars>>

\* s.sendall('FINISH'.encode()): the thread's conn.recv returns it, or it
\* waits in the queued connection until the accept; on a connection that was
\* reset the call raises and the program ends.
LegSendStatus(w) ==
    /\ leg_pc[w] = "send_status"
    /\ IF leg_sock[w].reset
       THEN /\ leg_pc' = [leg_pc EXCEPT ![w] = "exited"]
            /\ leg_sock' = [leg_sock EXCEPT ![w] = NoSocket]
            /\ UNCHANGED leg_thread
       ELSE /\ leg_pc' = [leg_pc EXCEPT ![w] = "recv"]
            /\ IF ServedBy(w) = Free
               THEN /\ leg_sock' = [leg_sock EXCEPT ![w].sent = TRUE]
                    /\ UNCHANGED leg_thread
               ELSE /\ leg_thread' = [leg_thread EXCEPT ![ServedBy(w)].status = "FINISH",
                                                        ![ServedBy(w)].pc = "status"]
                    /\ UNCHANGED leg_sock
    /\ UNCHANGED <<leg_seed, leg_backlog, leg_conn, leg_tasks, leg_main, leg_task, emitted>>
    /\ UNCHANGED <<schedVars, histVars, nodeVars, logVars, simVars>>

\* conn.sendall(reply) as the worker's socket sees it.
LegDeliver(t, reply) == [leg_sock EXCEPT ![leg_thread[t].client].data = reply]

\* The thread's socket is closed, as the worker's socket sees it (a worker
\* that has read its reply is on another socket by then).
LegClosed(t) ==
    IF leg_sock[leg_thread[t].client].thread = t
    THEN [leg_sock EXCEPT ![leg_thread[t].client].closed = TRUE]
    ELSE leg_sock

\* if status in {'FINISH', 'FINISH\n'}: if len(tasks) > 0: ... else:
\* conn.sendall("TASK FINISH").
LegCheck(t) ==
    /\ leg_thread[t].pc = "status"
    /\ IF Len(leg_tasks) > 0
       THEN /\ leg_thread' = [leg_thread EXCEPT ![t].pc = "pop"]
            /\ UNCHANGED leg_sock
       ELSE /\ leg_thread' = [leg_thread EXCEPT ![t].pc = "close",
                                                ![t].reply = <<"TASK", "FINISH">>]
            /\ leg_sock' = LegDeliver(t, <<"TASK", "FINISH">>)
    /\ UNCHANGED <<leg_seed, leg_backlog, leg_conn, leg_tasks, leg_main, leg_pc, leg_task, emitted>>
    /\ UNCHANGED <<schedVars, histVars, nodeVars, logVars, simVars>>

\* Faulty variant: tasks.pop(0), the first element.
TailPopFront(list) == [task |-> Head(list), rest |-> Tail(list)]

\* tasks.pop(): the last element, and the list without it.
TailPop(list) == [task |-> list[Len(list)], rest |-> SubSeq(list, 1, Len(list) - 1)]

\* The thread dies of an exception before its conn.close(): the socket is
\* closed when nothing refers to it any more, at once unless the module-level
\* `conn` still names it.
LegDropped(t) ==
    IF leg_sock[leg_thread[t].client].thread # t THEN leg_sock
    ELSE IF leg_conn = leg_thread[t].client
         THEN [leg_sock EXCEPT ![leg_thread[t].client].kept = TRUE]
         ELSE [leg_sock EXCEPT ![leg_thread[t].client].closed = TRUE]

\* task = tasks.pop() (the last element) and conn.sendall(f"TASK {task}");
\* on a list another thread has emptied since the check, pop raises
\* IndexError and the thread dies with nothing sent and without conn.close().
LegPop(t) ==
    /\ leg_thread[t].pc = "pop"
    /\ IF Len(leg_tasks) > 0
       THEN /\ leg_tasks' = TailPop(leg_tasks).rest
            /\ leg_thread' = [leg_thread EXCEPT ![t].task = TailPop(leg_tasks).task,
                                                ![t].reply = <<"TASK", TailPop(leg_tasks).task>>,
                                                ![t].pc = "emit_assigned"]
            /\ leg_sock' = LegDeliver(t, <<"TASK", TailPop(leg_tasks).task>>)
       ELSE /\ leg_thread' = [leg_thread EXCEPT ![t] = IdleLegacyThread]
            /\ leg_sock' = LegDropped(t)
            /\ UNCHANGED leg_tasks
    /\ UNCHANGED <<leg_seed, leg_backlog, leg_conn, leg_main, leg_pc, leg_task, emitted>>
    /\ UNCHANGED <<schedVars, histVars, nodeVars, logVars, simVars>>

\* hostname = addr[0]; event_msg = f"NODE {hostname} EVENT TASK_ASSIGNED TIME
\* {time.time()} TASK {task}"; send_logger_event(event_msg).
LegEmitAssigned(t, delivered) ==
    /\ leg_thread[t].pc = "emit_assigned"
    /\ SendLoggerEvent(event_msg(leg_thread[t].addr, "TASK_ASSIGNED", "100.0",
                                 leg_thread[t].task), delivered)
    /\ leg_thread' = [leg_thread EXCEPT ![t].pc = AfterEmit(delivered, "close")]
    /\ UNCHANGED <<leg_seed, leg_backlog, leg_conn, leg_tasks, leg_main, leg_pc, leg_task, leg_sock>>
    /\ UNCHANGED <<schedVars, histVars, nodeVars, simVars>>

\* print(f"Tasks left: {tasks}"); conn.close(); the thread ends.
LegClose(t) ==
    /\ leg_thread[t].pc = "close"
    /\ leg_thread' = [leg_thread EXCEPT ![t] = IdleLegacyThread]
    /\ leg_sock' = LegClosed(t)
    /\ UNCHANGED <<leg_seed, leg_backlog, leg_conn, leg_tasks, leg_main, leg_pc, leg_task, emitted>>
    /\ UNCHANGED <<schedVars, histVars, nodeVars, logVars, simVars>>

\* s.recv(1024) raises ConnectionResetError on a connection that was reset
\* while it was queued; nothing catches it and the program ends.
LegRecvReset(w) ==
    /\ leg_pc[w] = "recv"
    /\ leg_sock[w].reset
    /\ leg_pc' = [leg_pc EXCEPT ![w] = "exited"]
    /\ leg_sock' = [leg_sock EXCEPT ![w] = NoSocket]
    /\ UNCHANGED <<leg_seed, leg_backlog, leg_conn, leg_tasks, leg_main, leg_thread, leg_task, emitted>>
    /\ UNCHANGED <<schedVars, histVars, nodeVars, logVars, simVars>>

\* task = s.recv(1024).decode().split(' '); the four `if task[1] == ...`
\* (IndexError on a reply of one word, which ends the program) and
\* `if 'FINISH' in task: break`.
LegRecv(w) ==
    /\ leg_pc[w] = "recv"
    /\ ~leg_sock[w].reset
    /\ leg_sock[w].data # NoReply \/ leg_sock[w].closed
    /\ LET task == IF leg_sock[w].data = NoReply THEN <<"">> ELSE leg_sock[w].data
       IN  /\ leg_task' = [leg_task EXCEPT ![w] = task]
           /\ leg_pc' = [leg_pc EXCEPT ![w] =
                            IF Len(task) < 2 THEN "exited"
                            ELSE IF task[2] \in Catalog THEN "run"
                            ELSE IF InList("FINISH", task) THEN "exited"
                            ELSE "emit_finished"]
    /\ leg_sock' = [leg_sock EXCEPT ![w] = NoSocket]
    /\ UNCHANGED <<leg_seed, leg_backlog, leg_conn, leg_tasks, leg_main, leg_thread, emitted>>
    /\ UNCHANGED <<schedVars, histVars, nodeVars, logVars, simVars>>

\* The task function of the matching `if` returns.
LegRun(w) ==
    /\ leg_pc[w] = "run"
    /\ leg_pc' = [leg_pc EXCEPT ![w] = "emit_finished"]
    /\ UNCHANGED <<leg_seed, leg_backlog, leg_conn, leg_tasks, leg_main, leg_thread, leg_task, leg_sock, emitted>>
    /\ UNCHANGED <<schedVars, histVars, nodeVars, logVars, simVars>>

\* event_msg = f"NODE {hostname} EVENT TASK_FINISHED TIME {finish_time} TASK
\* {task[1]}"; send_logger_event(event_msg); the loop goes round.
LegEmitFinished(w, delivered) ==
    /\ leg_pc[w] = "emit_finished"
    /\ SendLoggerEvent(event_msg(WorkerHost(w), "TASK_FINISHED", "102.5",
                                 leg_task[w][2]), delivered)
    /\ leg_pc' = [leg_pc EXCEPT ![w] = AfterEmit(delivered, "connect")]
    /\ UNCHANGED <<leg_seed, leg_backlog, leg_conn, leg_tasks, leg_main, leg_thread, leg_task, leg_sock>>
    /\ UNCHANGED <<schedVars, histVars, nodeVars, simVars>>

\* The legacy scheduler, one legacy worker and the Logger start; the
\* scheduler's list is not empty.
LegInit ==
    /\ tasks = <<>>
    /\ SchedInit
    /\ LoggerInit
    /\ SimAbsent
    /\ wpc = [w \in Workers |-> "absent"]
    /\ wtask = [w \in Workers |-> NoTask]
    /\ wrested = [w \in Workers |-> FALSE]
    /\ inbox = [w \in Workers |-> EmptyInbox]
    /\ wlog = [w \in Workers |-> <<>>]
    /\ leg_tasks \in SeqsUpTo(TaskNames, MaxLegacyTasks) \ {<<>>}
    /\ leg_seed = leg_tasks
    /\ leg_main = "accept"
    /\ leg_thread = [t \in Threads |-> IdleLegacyThread]
    /\ leg_pc = [w \in Workers |-> IF w = 1 THEN "connect" ELSE "absent"]
    /\ leg_task = [w \in Workers |-> <<>>]
    /\ leg_sock = [w \in Workers |-> NoSocket]
    /\ leg_backlog = <<>>
    /\ leg_conn = NoClient
    /\ emitted = <<>>

\* The legacy pair and the Logger's handlers.  The scheduler names a node by
\* its address and the worker by its host name, so no TASK_FINISHED of this
\* system finds an open instance (see LegacyCorrelation) and the Logger's
\* duration step is not part of this next-state relation: no behaviour from
\* LegInit takes it.
LegNext ==
    \/ \E w \in Workers : LegConnect(w)
    \/ \E t \in Threads : LegAccept(t)
    \/ LegMainCheck
    \/ LegExit
    \/ \E w \in Workers : LegRecvReset(w)
    \/ \E w \in Workers : LegRefused(w)
    \/ \E w \in Workers, delivered \in BOOLEAN : LegEmitRequested(w, delivered)
    \/ \E w \in Workers : LegSendStatus(w)
    \/ \E t \in Threads : LegCheck(t)
    \/ \E t \in Threads : LegPop(t)
    \/ \E t \in Threads, delivered \in BOOLEAN : LegEmitAssigned(t, delivered)
    \/ \E t \in Threads : LegClose(t)
    \/ \E w \in Workers : LegRecv(w)
    \/ \E w \in Workers : LegRun(w)
    \/ \E w \in Workers, delivered \in BOOLEAN : LegEmitFinished(w, delivered)
    \/ Start
    \/ StartListen
    \/ StartFails
    \/ \E h \in Handlers : LogAcquire(h)
    \/ \E h \in Handlers : LogAppend(h)
    \/ \E h \in Handlers : LogOther(h)
    \/ \E h \in Handlers : LogAssigned(h)
    \/ \E h \in Handlers : LogFinished(h)

LegSpec == LegInit /\ [][LegNext]_vars

\* The legacy scheduler with two legacy workers and no Logger listening:
\* every send_logger_event fails and returns.
PopInit ==
    /\ tasks = <<>>
    /\ SchedInit
    /\ LoggerInit
    /\ SimAbsent
    /\ wpc = [w \in Workers |-> "absent"]
    /\ wtask = [w \in Workers |-> NoTask]
    /\ wrested = [w \in Workers |-> FALSE]
    /\ inbox = [w \in Workers |-> EmptyInbox]
    /\ wlog = [w \in Workers |-> <<>>]
    /\ leg_tasks \in SeqsUpTo(TaskNames, MaxLegacyTasks) \ {<<>>}
    /\ leg_seed = leg_tasks
    /\ leg_main = "accept"
    /\ leg_thread = [t \in Threads |-> IdleLegacyThread]
    /\ leg_pc = [w \in Workers |-> "connect"]
    /\ leg_task = [w \in Workers |-> <<>>]
    /\ leg_sock = [w \in Workers |-> NoSocket]
    /\ leg_backlog = <<>>
    /\ leg_conn = NoClient
    /\ emitted = <<>>

PopNext ==
    \/ \E w \in Workers : LegConnect(w)
    \/ \E t \in Threads : LegAccept(t)
    \/ LegMainCheck
    \/ LegExit
    \/ \E w \in Workers : LegRecvReset(w)
    \/ \E w \in Workers : LegRefused(w)
    \/ \E w \in Workers : LegEmitRequested(w, FALSE)
    \/ \E w \in Workers : LegSendStatus(w)
    \/ \E t \in Threads : LegCheck(t)
    \/ \E t \in Threads : LegPop(t)
    \/ \E t \in Threads : LegEmitAssigned(t, FALSE)
    \/ \E t \in Threads : LegClose(t)
    \/ \E w \in Workers : LegRecv(w)
    \/ \E w \in Workers : LegRun(w)
    \/ \E w \in Workers : LegEmitFinished(w, FALSE)

PopSpec == PopInit /\ [][PopNext]_vars

\* The legacy scheduler with one legacy worker, whose requests come one
\* after the other, and no Logger listening.
SeqInit ==
    /\ tasks = <<>>
    /\ SchedInit
    /\ LoggerInit
    /\ SimAbsent
    /\ wpc = [w \in Workers |-> "absent"]
    /\ wtask = [w \in Workers |-> NoTask]
    /\ wrested = [w \in Workers |-> FALSE]
    /\ inbox = [w \in Workers |-> EmptyInbox]
    /\ wlog = [w \in Workers |-> <<>>]
    /\ leg_tasks \in SeqsUpTo(TaskNames, MaxPopTasks) \ {<<>>}
    /\ leg_seed = leg_tasks
    /\ leg_main = "accept"
    /\ leg_thread = [t \in Threads |-> IdleLegacyThread]
    /\ leg_pc = [w \in Workers |-> IF w = 1 THEN "connect" ELSE "absent"]
    /\ leg_task = [w \in Workers |-> <<>>]
    /\ leg_sock = [w \in Workers |-> NoSocket]
    /\ leg_backlog = <<>>
    /\ leg_conn = NoClient
    /\ emitted = <<>>

SeqSpec == SeqInit /\ [][PopNext]_vars

\* ------------------------------------------------------------------ C25
\* The step is a send_logger_event call.
Emits == Len(emitted') = Len(emitted) + 1

\* C25 (best-effort event emission): a send_logger_event call, delivered or
\* failed, leaves the task list, the sockets and the worker's reply as they
\* are and moves only its caller, to the same place in both cases: the
\* assign_task thread, which has popped the task and sent `TASK <task>` to
\* its worker, goes on to close the connection, and the worker goes on to
\* send its status (after TASK_REQUESTED) or to its next connect (after
\* TASK_FINISHED).  A caller at a send_logger_event call can always take the
\* step of the failed send.
BestEffortEmission ==
    /\ [][Emits =>
            /\ UNCHANGED <<leg_tasks, leg_main, leg_task, leg_sock>>
            /\ \A t \in Threads :
                  leg_thread'[t] # leg_thread[t] =>
                      /\ leg_thread[t].pc = "emit_assigned"
                      /\ leg_thread'[t] = [leg_thread[t] EXCEPT !.pc = "close"]
                      /\ leg_thread[t].task # NoTask
                      /\ leg_thread[t].reply = <<"TASK", leg_thread[t].task>>
                      /\ Len(leg_tasks) < MaxLegacyTasks
            /\ \A w \in Workers :
                  leg_pc'[w] # leg_pc[w] =>
                      \/ leg_pc[w] = "emit_requested" /\ leg_pc'[w] = "send_status"
                      \/ leg_pc[w] = "emit_finished" /\ leg_pc'[w] = "connect"]_vars
    /\ [](/\ \A t \in Threads :
                leg_thread[t].pc = "emit_assigned" => ENABLED LegEmitAssigned(t, FALSE)
          /\ \A w \in Workers :
                /\ leg_pc[w] = "emit_requested" => ENABLED LegEmitRequested(w, FALSE)
                /\ leg_pc[w] = "emit_finished" => ENABLED LegEmitFinished(w, FALSE))

\* Every event of a round failed to be delivered, and the round went as
\* always: the worker got its task, ran it, and is at its next connect; the
\* assign_task thread has closed the connection and ended.
BestEffortEmissionWitness ==
    /\ Len(emitted) = 3
    /\ \A i \in 1..3 : ~emitted[i][2]
    /\ \E w \in Workers :
          /\ leg_pc[w] = "connect"
          /\ Len(leg_task[w]) = 2
          /\ leg_task[w][2] \in Catalog
    /\ \A t \in Threads : leg_thread[t].pc = "idle"

\* ------------------------------------------------------------------ C29
\* Event i of the log is the scheduler's TASK_ASSIGNED for worker w and
\* event j, later in the log, the TASK_FINISHED that worker sent for the
\* same task.
AssignedAndFinished(w, i, j) ==
    /\ i < j
    /\ events[i].event = "TASK_ASSIGNED"
    /\ events[i].node = WorkerIp(w)
    /\ events[i].task_name # None
    /\ events[j].event = "TASK_FINISHED"
    /\ events[j].node = WorkerHost(w)
    /\ events[j].task_name = events[i].task_name

\* C29 (end-to-end correlation, legacy system): once the Logger has handled
\* the scheduler's TASK_ASSIGNED and the worker's TASK_FINISHED of one
\* assignment, the finish is correlated to the instance that the assignment
\* created, and that instance is completed.
LegacyCorrelation ==
    (log_lock = Free /\ \A h \in Handlers : handler[h].pc = "idle") =>
        \A w \in Workers : \A i, j \in DOMAIN events :
            AssignedAndFinished(w, i, j) =>
                /\ events[j].task_instance # None
                /\ events[j].task_instance = events[i].task_instance
                /\ \E k \in DOMAIN log_tasks :
                      /\ Some(log_tasks[k].id) = events[i].task_instance
                      /\ log_tasks[k].finished_time # None
                      /\ log_tasks[k].duration # None

\* ------------------------------------------------------------------ C31
\* C31 (no retry): a network error in a Node Worker's TASK|REQUEST exchange
\* or TASK|FINISH send is the last entry of its history and the worker has
\* ended: it sends no further message to the scheduler.
NoRetry ==
    \A w \in Workers : \A i \in Entries(w, "NETERR") :
        /\ i = Len(wlog[w])
        /\ wpc[w] = "exited"

\* A worker that ran an assignment, failed to send its TASK|FINISH and has
\* ended, while the other worker failed in its request exchange; every
\* connection has been closed since.
NoRetryWitness ==
    /\ \E w \in Workers :
          /\ Len(wlog[w]) >= 4
          /\ wlog[w][Len(wlog[w])] = <<"NETERR", "FINISH">>
          /\ wlog[w][Len(wlog[w]) - 1][1] = "EXECUTE"
    /\ \E w \in Workers :
          /\ Len(wlog[w]) >= 2
          /\ wlog[w][Len(wlog[w])] = <<"NETERR", "RECV">>
    /\ \A w \in Workers : wpc[w] = "exited"
    /\ AllClosed

\* ------------------------------------------------------------------ C32
\* Instances of the table that have a finished_time.
Completed == {k \in DOMAIN log_tasks : log_tasks[k].finished_time # None}

\* TASK_FINISHED events of the log that carry a task name.
FinishedEvents ==
    {i \in DOMAIN events : events[i].event = "TASK_FINISHED" /\ events[i].task_name # None}

\* C32 (completed at most once): a finished_time and a duration, once set,
\* are never changed by any step, and there are never more completed
\* instances than TASK_FINISHED events with a task name in the event log.
CompletedAtMostOnce ==
    /\ [](Cardinality(Completed) <= Cardinality(FinishedEvents))
    /\ [][\A k \in DOMAIN log_tasks :
             /\ k \in DOMAIN log_tasks'
             /\ log_tasks[k].finished_time # None =>
                    log_tasks'[k].finished_time = log_tasks[k].finished_time
             /\ log_tasks[k].duration # None =>
                    log_tasks'[k].duration = log_tasks[k].duration]_vars

\* An instance assigned at 100 and finished at 100, and a second
\* TASK_FINISHED for the same node and type at 102.5 handled after it: the
\* instance still has the finished_time and duration of the first.
CompletedAtMostOnceWitness ==
    /\ log_lock = Free
    /\ \A h \in Handlers : handler[h].pc = "idle"
    /\ Len(events) = 3
    /\ events[1].event = "TASK_ASSIGNED" /\ events[1].time = FloatValue["100.0"]
    /\ events[2].event = "TASK_FINISHED" /\ events[2].time = FloatValue["100.0"]
    /\ events[3].event = "TASK_FINISHED" /\ events[3].time = FloatValue["102.5"]
    /\ events[1].task_name # None
    /\ events[2].task_name = events[1].task_name /\ events[2].node = events[1].node
    /\ events[3].task_name = events[1].task_name /\ events[3].node = events[1].node
    /\ events[3].task_instance = None
    /\ Len(log_tasks) = 1
    /\ log_tasks[1].finished_time = Some(FloatValue["100.0"])
    /\ log_tasks[1].duration = Some(0)

\* ------------------------------------------------------------------ C33
\* Handler h, holding the lock, takes a step of _process_event.
Processes(h) ==
    /\ handler[h].pc \in {"process", "duration"}
    /\ handler'[h] # handler[h]

\* C33 (correlation isolation): an instance of the table changes only in a
\* step of the handler of a TASK_FINISHED event with the instance's own type
\* and node, and the handler of a TASK_REQUESTED event changes neither the
\* instance table nor the counters.
CorrelationIsolation ==
    [][/\ \A k \in DOMAIN log_tasks :
             (k \in DOMAIN log_tasks' /\ log_tasks'[k] # log_tasks[k]) =>
                 \E h \in Handlers :
                     /\ Processes(h)
                     /\ Own(h).event = "TASK_FINISHED"
                     /\ Own(h).task_name = Some(log_tasks[k].task_name)
                     /\ Own(h).node = log_tasks[k].node
       /\ \A h \in Handlers :
             (Processes(h) /\ Own(h).event = "TASK_REQUESTED") =>
                 UNCHANGED <<log_tasks, task_counters>>]_vars

\* node2's instance of matmul is open; a TASK_FINISHED for matmul from node1
\* and a TASK_REQUESTED have been handled after it and left it open, the only
\* instance, with the counter at 1.
CorrelationIsolationWitness ==
    /\ log_lock = Free
    /\ \A h \in Handlers : handler[h].pc = "idle"
    /\ Len(events) = 3
    /\ events[1].event = "TASK_ASSIGNED" /\ events[1].node = "node2"
    /\ events[1].task_name = Some(matmul_task)
    /\ \E i \in 2..3 :
          /\ events[i].event = "TASK_FINISHED" /\ events[i].node = "node1"
          /\ events[i].task_name = Some(matmul_task)
          /\ events[i].task_instance = None
    /\ \E i \in 2..3 : events[i].event = "TASK_REQUESTED"
    /\ Len(log_tasks) = 1
    /\ log_tasks[1].node = "node2"
    /\ log_tasks[1].finished_time = None
    /\ task_counters[matmul_task] = 1

\* ------------------------------------------------------------------ C34
\* C34 (no TASK key): a TASK_ASSIGNED or TASK_FINISHED event without TASK is
\* in the event log when it is processed, its processing leaves the log, the
\* instance table and the counters as they are, and it never carries a
\* task_instance; no instance of the table refers to it.
NoTaskNoInstance ==
    /\ [](/\ \A i \in DOMAIN events :
                events[i].task_name = None => events[i].task_instance = None
          /\ \A k \in DOMAIN log_tasks : \A j \in DOMAIN log_tasks[k].events :
                events[log_tasks[k].events[j]].task_name # None)
    /\ [][\A h \in Handlers :
             (/\ Processes(h)
              /\ Own(h).task_name = None
              /\ Own(h).event \in {"TASK_ASSIGNED", "TASK_FINISHED"})
             => /\ handler[h].idx \in DOMAIN events
                /\ UNCHANGED <<events, log_tasks, task_counters>>]_vars

\* An open instance of matmul on node1, and after it a TASK_FINISHED and a
\* TASK_ASSIGNED from node1 without TASK, both handled: the instance is still
\* open, the only one, and the counter of matmul is 1.
NoTaskNoInstanceWitness ==
    /\ log_lock = Free
    /\ \A h \in Handlers : handler[h].pc = "idle"
    /\ Len(events) = 3
    /\ events[1].event = "TASK_ASSIGNED" /\ events[1].task_name = Some(matmul_task)
    /\ events[2].event = "TASK_FINISHED" /\ events[2].task_name = None
    /\ events[3].event = "TASK_ASSIGNED" /\ events[3].task_name = None
    /\ Len(log_tasks) = 1
    /\ log_tasks[1].finished_time = None
    /\ log_tasks[1].events = <<1>>
    /\ DOMAIN task_counters = {matmul_task}
    /\ task_counters[matmul_task] = 1

\* ------------------------------------------------------------------ C35
\* The message handler t works on in this step (the one it has just received
\* when the step is the accept).
Handled(t) == IF thread[t].pc = "idle" THEN thread'[t].message ELSE thread[t].message

\* C35 (frame conditions): a step of a REGISTER handler leaves the seeded
\* list, the waiting queue, the in-flight map and FinishedTasks unchanged; a
\* step of a TASK|REQUEST or TASK|FINISH handler leaves the registry
\* unchanged, and what it decides depends on the waiting queue and the
\* in-flight map alone, whatever the registry holds; a step of a TASK|FINISH
\* handler for node A leaves the in-flight entry of every other node as it is.
FrameConditions ==
    [][\A t \in Threads :
          Steps(t) =>
            /\ (Len(Handled(t)) >= 1 /\ Handled(t)[1] = "REGISTER")
                  => UNCHANGED <<tasks, waiting_tasks, processing_tasks, finished_tasks>>
            /\ (IsRequest(Handled(t)) \/ (Len(Handled(t)) >= 2 /\ Handled(t)[1] = "TASK"
                                          /\ Handled(t)[2] = "FINISH"))
                  => UNCHANGED registered_nodes
            /\ thread[t].pc = "req_check"
                  => (thread'[t].pc = "req_pop") = (Len(waiting_tasks) > 0)
            /\ thread[t].pc = "fin_check"
                  => (thread'[t].pc = "fin_pop") = (thread[t].addr \in DOMAIN processing_tasks)
            /\ (Len(Handled(t)) >= 2 /\ Handled(t)[1] = "TASK" /\ Handled(t)[2] = "FINISH")
                  => \A ip \in Ips \ {IF thread[t].pc = "idle" THEN thread'[t].addr
                                      ELSE thread[t].addr} :
                        /\ (ip \in DOMAIN processing_tasks') = (ip \in DOMAIN processing_tasks)
                        /\ ip \in DOMAIN processing_tasks
                              => processing_tasks'[ip] = processing_tasks[ip]]_vars

\* Nobody has registered; both nodes were given a task, the TASK|FINISH of
\* 10.0.0.1 has been handled, and the entry of 10.0.0.2 is still in flight.
FrameConditionsWitness ==
    /\ registered_nodes = <<>>
    /\ \A t \in Threads : thread[t].pc = "idle"
    /\ waiting_tasks = <<>>
    /\ Len(tasks) = 2
    /\ DOMAIN processing_tasks = {"10.0.0.2"}
    /\ processing_tasks["10.0.0.2"] = tasks[2]
    /\ finished_tasks = <<tasks[1]>>

\* ------------------------------------------------------------------ C36
\* C36 (legacy scheduler, every FINISH answered): no assign_task thread is
\* at tasks.pop() with the list empty, and no legacy worker that sent FINISH
\* whose connection was accepted is left without a reply: none waits on a
\* connection whose thread died, and none has read the end of its connection
\* instead of a reply.
LegacyAlwaysAnswers ==
    /\ \A t \in Threads : leg_thread[t].pc = "pop" => Len(leg_tasks) > 0
    /\ \A w \in Workers : ~leg_sock[w].kept /\ leg_task[w] # <<"">>

\* ------------------------------------------------------------------ C37
\* C37 (pop from the tail): the list is always what is left of the seeded
\* list after taking tasks from its end, and the k-th pop replies with the
\* k-th task from the end of the seeded list.
LegacyTailOrder ==
    /\ [](leg_tasks = SubSeq(leg_seed, 1, Len(leg_tasks)))
    /\ [][\A t \in Threads :
             (leg_thread[t].pc = "pop" /\ leg_thread'[t].pc = "emit_assigned")
             => LET k == Len(leg_seed) - Len(leg_tasks) + 1
                IN  /\ leg_thread'[t].reply = <<"TASK", leg_seed[Len(leg_seed) - k + 1]>>
                    /\ LegDeliver(t, leg_thread'[t].reply) = leg_sock'
                    /\ Len(leg_tasks') = Len(leg_seed) - k]_vars

\* The list was seeded [matmul, primes]; worker 1 alone asked twice, one
\* request after the other: it was given primes and then matmul.
LegacyTailOrderWitness ==
    /\ leg_seed = <<matmul_task, primes>>
    /\ leg_tasks = <<>>
    /\ \A t \in Threads : leg_thread[t].pc = "idle"
    /\ \E i, j \in DOMAIN emitted :
          /\ i < j
          /\ emitted[i][1] = event_msg(WorkerIp(1), "TASK_ASSIGNED", "100.0", primes)
          /\ emitted[j][1] = event_msg(WorkerIp(1), "TASK_ASSIGNED", "100.0", matmul_task)

\* ---------------------------------------------------- aggregation (viewer)
\* Faulty variant: a duration of 0 does not count as a duration.
HasDurationTruthy(task) == task.duration # None /\ task.duration[1] # 0

\* 'duration' in task
HasDuration(task) == task.duration # None

RECURSIVE SumOf(_)
\* sum(list)
SumOf(list) == IF list = <<>> THEN 0 ELSE Head(list) + SumOf(Tail(list))

\* min(list) and max(list) of a list that is not empty.
MinOf(list) == CHOOSE v \in {list[i] : i \in DOMAIN list} : \A i \in DOMAIN list : v <= list[i]
MaxOf(list) == CHOOSE v \in {list[i] : i \in DOMAIN list} : \A i \in DOMAIN list : v >= list[i]

\* A quotient sum / len, kept as the pair it is computed from; the literal 0
\* of the else branches is 0 / 1.
Zero == [num |-> 0, den |-> 1]
Mean(list) == IF list = <<>> THEN Zero ELSE [num |-> SumOf(list), den |-> Len(list)]

\* [t['duration'] for t in d.values() if 'duration' in t], in dict order.
RECURSIVE DurationsFrom(_, _)
DurationsFrom(d, i) ==
    IF i > Len(d) THEN <<>>
    ELSE IF HasDuration(d[i]) THEN <<d[i].duration[1]>> \o DurationsFrom(d, i + 1)
    ELSE DurationsFrom(d, i + 1)

\* sum(1 for t in d.values() if 'duration' in t)
CompletedIn(d) == Cardinality({i \in DOMAIN d : HasDuration(d[i])})

\* {tid: data for tid, data in self.tasks.items() if data.get(field) == value}
SelectNode(d, node) == SelectSeq(d, LAMBDA task : task.node = node)
SelectType(d, task_name) == SelectSeq(d, LAMBDA task : task.task_name = task_name)

NewGroup == [total |-> 0, completed |-> 0, durations |-> <<>>]

\* The two `for task in tasks.values()` loops of get_summary_stats from
\* position i on: keys[i] is the task's node (or task_name).
RECURSIVE GroupFrom(_, _, _, _)
GroupFrom(d, keys, i, stats) ==
    IF i > Len(d) THEN stats
    ELSE LET old == IF keys[i] \in DOMAIN stats THEN stats[keys[i]] ELSE NewGroup
             new == [total |-> old.total + 1,
                     completed |-> IF HasDuration(d[i]) THEN old.completed + 1
                                   ELSE old.completed,
                     durations |-> IF HasDuration(d[i])
                                   THEN Append(old.durations, d[i].duration[1])
                                   ELSE old.durations]
         IN  GroupFrom(d, keys, i + 1, DictSet(stats, keys[i], new))

\* LogViewer.get_summary_stats on data = {'events': events, 'tasks': d}.
GetSummaryStats(d) ==
    LET all_durations == DurationsFrom(d, 1)
    IN  [total_events |-> Len(events),
         total_tasks |-> Len(d),
         completed_tasks |-> CompletedIn(d),
         pending_tasks |-> Len(d) - CompletedIn(d),
         node_stats |-> GroupFrom(d, [i \in DOMAIN d |-> d[i].node], 1, <<>>),
         task_type_stats |-> GroupFrom(d, [i \in DOMAIN d |-> d[i].task_name], 1, <<>>),
         avg_duration |-> Mean(all_durations),
         min_duration |-> IF all_durations # <<>> THEN MinOf(all_durations) ELSE 0,
         max_duration |-> IF all_durations # <<>> THEN MaxOf(all_durations) ELSE 0]

\* Logger.get_task_type_stats(task_name).
GetTaskTypeStats(task_name) ==
    LET task_instances == SelectType(log_tasks, task_name)
        completed == CompletedIn(task_instances)
    IN  [total_instances |-> Len(task_instances),
         completed_instances |-> completed,
         average_duration |-> IF completed > 0
                              THEN Mean(DurationsFrom(task_instances, 1)) ELSE Zero]

\* Logger.get_node_stats(node).
GetNodeStats(node) ==
    LET its_tasks == SelectNode(log_tasks, node)
        completed_tasks == CompletedIn(its_tasks)
    IN  [total_tasks |-> Len(its_tasks),
         completed_tasks |-> completed_tasks,
         average_duration |-> IF completed_tasks > 0
                              THEN Mean(DurationsFrom(its_tasks, 1)) ELSE Zero]

\* ------------------------------------------------------------------ C38
\* The instances of a set that carry a duration, and their durations added up.
Done(S) == {k \in S : log_tasks[k].duration # None}
RECURSIVE DurationSum(_)
DurationSum(S) ==
    IF S = {} THEN 0
    ELSE LET k == CHOOSE k \in S : TRUE
         IN  log_tasks[k].duration[1] + DurationSum(S \ {k})

\* What a grouping over the instances S has to report.
Expected(S) ==
    [total |-> Cardinality(S),
     completed |-> Cardinality(Done(S)),
     average |-> IF Done(S) = {} THEN Zero
                 ELSE [num |-> DurationSum(Done(S)), den |-> Cardinality(Done(S))]]

\* The durations listed for a grouping are those of the completed instances of S.
ListsDone(durations, S) ==
    /\ Len(durations) = Cardinality(Done(S))
    /\ \A k \in Done(S) :
          Count(durations, log_tasks[k].duration[1])
             = Cardinality({j \in Done(S) : log_tasks[j].duration = log_tasks[k].duration})

\* C38 (aggregation): in every Logger state, overall, per node and per task
\* type, total counts the instances of the grouping, completed those with a
\* duration, completed + pending = total, and mean, minimum and maximum are
\* taken over the durations of the completed instances, 0 if there is none;
\* the Logger's own per-node and per-type statistics agree with the viewer's.
AggregationConsistent ==
    LET s == GetSummaryStats(log_tasks)
        All == DOMAIN log_tasks
        AtNode(n) == {k \in All : log_tasks[k].node = n}
        OfType(x) == {k \in All : log_tasks[k].task_name = x}
    IN  /\ s.total_tasks = Cardinality(All)
        /\ s.completed_tasks = Cardinality(Done(All))
        /\ s.completed_tasks + s.pending_tasks = s.total_tasks
        /\ s.avg_duration = Expected(All).average
        /\ Done(All) = {} => s.min_duration = 0 /\ s.max_duration = 0
        /\ Done(All) # {} =>
              /\ \E k \in Done(All) : s.min_duration = log_tasks[k].duration[1]
              /\ \E k \in Done(All) : s.max_duration = log_tasks[k].duration[1]
              /\ \A k \in Done(All) :
                    /\ s.min_duration <= log_tasks[k].duration[1]
                    /\ log_tasks[k].duration[1] <= s.max_duration
        /\ DOMAIN s.node_stats = {log_tasks[k].node : k \in All}
        /\ \A n \in DOMAIN s.node_stats :
              /\ s.node_stats[n].total = Expected(AtNode(n)).total
              /\ s.node_stats[n].completed = Expected(AtNode(n)).completed
              /\ ListsDone(s.node_stats[n].durations, AtNode(n))
              /\ Mean(s.node_stats[n].durations) = Expected(AtNode(n)).average
              /\ GetNodeStats(n).total_tasks = Expected(AtNode(n)).total
              /\ GetNodeStats(n).completed_tasks = Expected(AtNode(n)).completed
              /\ GetNodeStats(n).average_duration = Expected(AtNode(n)).average
        /\ DOMAIN s.task_type_stats = {log_tasks[k].task_name : k \in All}
        /\ \A x \in DOMAIN s.task_type_stats :
              /\ s.task_type_stats[x].total = Expected(OfType(x)).total
              /\ s.task_type_stats[x].completed = Expected(OfType(x)).completed
              /\ ListsDone(s.task_type_stats[x].durations, OfType(x))
              /\ Mean(s.task_type_stats[x].durations) = Expected(OfType(x)).average
              /\ GetTaskTypeStats(x).total_instances = Expected(OfType(x)).total
              /\ GetTaskTypeStats(x).completed_instances = Expected(OfType(x)).completed
              /\ GetTaskTypeStats(x).average_duration = Expected(OfType(x)).average

\* Three instances: matmul on node1 completed after 2.5 s, matmul on node2
\* and matmul_1 on node1 still open.  Overall 3 = 1 + 2; node2 and the type
\* matmul_1 have nothing completed and report 0.
AggregationConsistentWitness ==
    LET s == GetSummaryStats(log_tasks)
    IN  /\ log_lock = Free
        /\ s.total_tasks = 3 /\ s.completed_tasks = 1 /\ s.pending_tasks = 2
        /\ s.avg_duration = [num |-> 5, den |-> 1]
        /\ s.min_duration = 5 /\ s.max_duration = 5
        /\ DOMAIN s.node_stats = {"node1", "node2"}
        /\ s.node_stats["node1"] = [total |-> 2, completed |-> 1, durations |-> <<5>>]
        /\ s.node_stats["node2"] = [total |-> 1, completed |-> 0, durations |-> <<>>]
        /\ DOMAIN s.task_type_stats = {matmul_task, "matmul_1"}
        /\ s.task_type_stats["matmul_1"].completed = 0
        /\ GetNodeStats("node2").average_duration = Zero
        /\ GetTaskTypeStats(matmul_task).average_duration = [num |-> 5, den |-> 1]

\* ------------------------------------------------- the cluster simulator
\* Times of the simulator are in half seconds.  node_tasks is an integer
\* array: a float stored in it is cut to whole seconds, towards zero.
IntCast(x) == IF x >= 0 THEN 2 * (x \div 2) ELSE -(2 * ((-x) \div 2))

\* TASK_PARAM_RANGES[TASK_MATMUL]
MatmulRange == [min_val |-> 250, max_val |-> 5000]

\* Env.step's encode_task(task_type, param, normalize=False) followed by
\* assign_task's decode_task(task_vector): the all-zero vector is the idle
\* task; any other vector is read as argmax of the one-hot part, with the
\* parameter cell run through denormalize_parameter.
DecodeTask(task) ==
    IF task[1] < 0 /\ task[2] = 0 THEN <<TASK_IDLE, 0>>
    ELSE <<IF task[1] >= 0 THEN task[1] ELSE 0,
           task[2] * (MatmulRange.max_val - MatmulRange.min_val) + MatmulRange.min_val>>

IdleRow(now) ==
    [task_type |-> TASK_IDLE, parameter |-> 0, start_time |-> IntCast(now),
     expected_duration |-> 0]

\* NodeCluster.assign_task; duration is what self.duration(task_vector,
\* node_id) returns for this call.
AssignTask(nt, now, node_id, task, duration) ==
    LET decoded == DecodeTask(task)
    IN  IF decoded[1] = TASK_IDLE
        THEN [nt EXCEPT ![node_id] = IdleRow(now)]
        ELSE [nt EXCEPT ![node_id] =
                 [task_type |-> decoded[1], parameter |-> decoded[2],
                  start_time |-> IntCast(now),
                  expected_duration |-> IntCast(duration)]]

\* NodeCluster.get_time_remaining
GetTimeRemaining(nt, now, node_id) ==
    IF nt[node_id].task_type = TASK_IDLE THEN 0
    ELSE LET elapsed == now - nt[node_id].start_time
             remaining == nt[node_id].expected_duration - elapsed
         IN  IF remaining > 0 THEN remaining ELSE 0

\* NodeCluster.is_idle
IsIdle(nt, now, node_id) ==
    \/ nt[node_id].task_type = TASK_IDLE
    \/ GetTimeRemaining(nt, now, node_id) = 0

\* Faulty variant: the last element of the sorted list.
LatestOf(completion_times) ==
    CHOOSE c \in completion_times :
        \A o \in completion_times : o[1] < c[1] \/ (o[1] = c[1] /\ o[2] <= c[2])

\* completion_times.sort(); completion_times[0]: tuples compare by time, then
\* by node id.
EarliestOf(completion_times) ==
    CHOOSE c \in completion_times :
        \A o \in completion_times : c[1] < o[1] \/ (c[1] = o[1] /\ c[2] <= o[2])

\* NodeCluster.run_time_forward: the table, the time and the value returned.
RunTimeForward(nt, now) ==
    LET completion_times ==
            {<<now + GetTimeRemaining(nt, now, n), n>> :
                n \in {i \in SimNodes : /\ ~IsIdle(nt, now, i)
                                        /\ GetTimeRemaining(nt, now, i) > 0}}
    IN  IF completion_times = {}
        THEN [node_tasks |-> nt, current_time |-> now, freed |-> None]
        ELSE LET first == EarliestOf(completion_times)
             IN  [node_tasks |-> [nt EXCEPT ![first[2]] = IdleRow(first[1])],
                  current_time |-> first[1],
                  freed |-> Some(first[2])]

RECURSIVE AssignAll(_, _, _, _)
\* for node_id, task_vector in actions_encoded: self.cluster.assign_task(...)
\* from position i on; an action is <<node_id, task, duration>>.
AssignAll(nt, now, actions, i) ==
    IF i > Len(actions) THEN nt
    ELSE AssignAll(AssignTask(nt, now, actions[i][1], actions[i][2], actions[i][3]),
                   now, actions, i + 1)

\* Tasks a caller hands to the simulator, <<task_type, param>>, and the
\* durations (0.5 s, 1 s, 2 s) the duration function gives them.
IdleTask == <<TASK_IDLE, 0>>
SimTasks == {IdleTask, <<TASK_MATMUL, 1>>}
Durations == {1, 2, 4}
SimActions ==
    {<<n, IdleTask, 0>> : n \in SimNodes}
    \cup {<<n, <<TASK_MATMUL, 1>>, d>> : n \in SimNodes, d \in Durations}
\* Longest action list of one step.
MaxActions == 2

\* Env.reset
SimReset ==
    /\ Len(sim_calls) < MaxCalls
    /\ node_tasks' = [n \in SimNodes |-> IdleRow(0)]
    /\ current_time' = 0
    /\ total_time_elapsed' = 0
    /\ tasks_completed' = 0
    /\ sim_done' = FALSE
    /\ sim_assigned' = 0
    /\ sim_calls' = Append(sim_calls, "reset")
    /\ UNCHANGED sim_freed
    /\ UNCHANGED <<schedVars, histVars, nodeVars, logVars, legVars>>

\* Env.step(actions)
SimStep(actions) ==
    /\ Len(sim_calls) < MaxCalls
    /\ LET ran == RunTimeForward(AssignAll(node_tasks, current_time, actions, 1),
                                 current_time)
       IN  /\ node_tasks' = ran.node_tasks
           /\ current_time' = ran.current_time
           /\ sim_freed' = ran.freed
           /\ tasks_completed' = IF ran.freed # None THEN tasks_completed + 1
                                 ELSE tasks_completed
           /\ total_time_elapsed' = ran.current_time
           /\ sim_done' = (ran.freed = None)
    /\ sim_assigned' = sim_assigned
           + Cardinality({i \in DOMAIN actions : DecodeTask(actions[i][2])[1] # TASK_IDLE})
    /\ sim_calls' = Append(sim_calls, "step")
    /\ UNCHANGED <<schedVars, histVars, nodeVars, logVars, legVars>>

\* NodeCluster.assign_task called on the cluster itself.
ClusterAssign(node_id, task, duration) ==
    /\ Len(sim_calls) < MaxCalls
    /\ node_tasks' = AssignTask(node_tasks, current_time, node_id, task, duration)
    /\ sim_calls' = Append(sim_calls, "assign_task")
    /\ UNCHANGED <<current_time, tasks_completed, total_time_elapsed, sim_done,
                   sim_freed, sim_assigned>>
    /\ UNCHANGED <<schedVars, histVars, nodeVars, logVars, legVars>>

\* NodeCluster.run_time_forward called on the cluster itself.
ClusterRun ==
    /\ Len(sim_calls) < MaxCalls
    /\ LET ran == RunTimeForward(node_tasks, current_time)
       IN  /\ node_tasks' = ran.node_tasks
           /\ current_time' = ran.current_time
           /\ sim_freed' = ran.freed
    /\ sim_calls' = Append(sim_calls, "run_time_forward")
    /\ UNCHANGED <<tasks_completed, total_time_elapsed, sim_done, sim_assigned>>
    /\ UNCHANGED <<schedVars, histVars, nodeVars, logVars, legVars>>

\* NodeCluster.reset called on the cluster itself: the table as constructed
\* and the time back at 0.0.
ClusterReset ==
    /\ Len(sim_calls) < MaxCalls
    /\ node_tasks' = FreshNodeTasks
    /\ current_time' = 0
    /\ sim_calls' = Append(sim_calls, "cluster_reset")
    /\ UNCHANGED <<tasks_completed, total_time_elapsed, sim_done, sim_freed,
                   sim_assigned>>
    /\ UNCHANGED <<schedVars, histVars, nodeVars, logVars, legVars>>

\* The simulator as constructed; none of the networked programs runs.
SimInit ==
    /\ tasks = <<>>
    /\ SchedInit
    /\ LoggerInit
    /\ SimAbsent
    /\ LegacyAbsent
    /\ wpc = [w \in Workers |-> "absent"]
    /\ wtask = [w \in Workers |-> NoTask]
    /\ wrested = [w \in Workers |-> FALSE]
    /\ inbox = [w \in Workers |-> EmptyInbox]
    /\ wlog = [w \in Workers |-> <<>>]

\* An Env driven through reset and step.
EnvNext ==
    \/ SimReset
    \/ \E actions \in SeqsUpTo(SimActions, MaxActions) : SimStep(actions)

EnvSpec == SimInit /\ [][EnvNext]_vars

\* A NodeCluster driven through assign_task, run_time_forward and reset.
ClusterNext ==
    \/ \E a \in SimActions : ClusterAssign(a[1], a[2], a[3])
    \/ ClusterRun
    \/ ClusterReset

ClusterSpec == SimInit /\ [][ClusterNext]_vars

\* ------------------------------------------------------------------ C39
\* C39 (simulator accounting): when step has returned done, tasks_completed
\* is the number of tasks other than idle assigned through step since reset.
CompletedCountsAssigned ==
    sim_done => tasks_completed = sim_assigned

\* ------------------------------------------------------------------ C40
\* Nodes that are busy, and when each of them completes.
Busy == {n \in SimNodes : ~IsIdle(node_tasks, current_time, n)}
CompletesAt(n) == current_time + GetTimeRemaining(node_tasks, current_time, n)

\* C40 (simulator time): a run_time_forward call with a busy node sets
\* current_time to the earliest completion time of the busy nodes, returns a
\* node completing then, writes the idle row to that node and leaves every
\* other row as it is; with no busy node it returns None and changes
\* neither the table nor the time; no assign_task and no run_time_forward
\* call makes current_time smaller (NodeCluster.reset, which the claim does
\* not speak of, puts it back to 0.0).
TimeForward ==
    [][/\ (Len(sim_calls') = Len(sim_calls) + 1
              /\ sim_calls'[Len(sim_calls')] \in {"assign_task", "run_time_forward"})
          => current_time' >= current_time
       /\ (Len(sim_calls') = Len(sim_calls) + 1
              /\ sim_calls'[Len(sim_calls')] = "run_time_forward")
          => /\ Busy = {} =>
                  /\ sim_freed' = None
                  /\ UNCHANGED <<node_tasks, current_time>>
             /\ Busy # {} =>
                  /\ \A n \in Busy : current_time' <= CompletesAt(n)
                  /\ \E n \in Busy :
                        /\ sim_freed' = Some(n)
                        /\ current_time' = CompletesAt(n)
                        /\ node_tasks'[n].task_type = TASK_IDLE
                        /\ \A o \in SimNodes \ {n} : node_tasks'[o] = node_tasks[o]]_vars

\* Node 0 was given a task of 1 s and node 1 one of 2 s; the first call
\* freed node 0 at 1 s, the second freed node 1 at 2 s, and no node is busy.
TimeForwardWitness ==
    /\ sim_calls = <<"assign_task", "assign_task", "run_time_forward", "run_time_forward">>
    /\ current_time = 4
    /\ sim_freed = Some(1)
    /\ node_tasks[0].start_time = 2
    /\ node_tasks[1].start_time = 4
    /\ Busy = {}

====
